---- MODULE Spec2Model ----
(***************************************************************************)
(* Frame lifecycle of the vulkan-fdf renderer: Application::mainLoop,      *)
(* Renderer::drawFrame, Renderer::recreateSwapchain, the resize callback,  *)
(* and the GPU / presentation engine as asynchronous processes.            *)
(***************************************************************************)
EXTENDS Integers, Sequences, FiniteSets, TLC

\* ------------------------------------------------------------------ bounds
\* Largest image count the driver hands out for a chain.
MaxImages == 3
\* Window events (resize or other) the environment produces in one run.
MaxEvents == 2

\* ------------------------------------------------------- program constants
MAX_FRAMES_IN_FLIGHT == 2

Slots == 0 .. (MAX_FRAMES_IN_FLIGHT - 1)
\* Image counts a created chain may have (images = swapchain.getImages()).
ImageCounts == (MaxImages - 1) .. MaxImages
\* A handle read past the end of a vector: no semaphore of the program.
Garbage == 0 - 1
NoImage == 0 - 1

\* vk::Result values drawFrame distinguishes.
AcquireResults == {"Success", "Suboptimal", "OutOfDate", "Error"}
PresentResults == {"Success", "Suboptimal", "OutOfDate", "Error"}

VARIABLES
    pc,             \* position of the CPU thread in mainLoop / drawFrame
    stack,          \* active recreateSwapchain invocations, innermost last
    currentFrame,   \* Renderer::currentFrame
    result,         \* drawFrame local: vk::Result of acquire / present
    imageIndex,     \* drawFrame local: image index returned by acquire
    submitInfo,     \* drawFrame local: vk::SubmitInfo + fence argument
    presentInfo,    \* drawFrame local: vk::PresentInfoKHR
    fence,          \* inFlightFences[f] signaled?
    imgAvail,       \* imageAvailableSemaphores[f] holds a signal?
    renderFin,      \* renderFinishedSemaphores[s] holds a signal?
    numRF,          \* renderFinishedSemaphores.size()
    fenceOps,       \* per fence: the last thing the CPU did with it
    queue,          \* submissions the GPU has not completed
    imageCount,     \* images.size() of the current chain
    imgState,       \* per image of the current chain: free/acquired/queued
    presWait,       \* per image: semaphore a queued present waits on
    winZero,        \* framebuffer size has a zero width or height
    pendingResize,  \* resize events not yet dispatched to the callback
    pendingOther,   \* another window event is waiting to be processed
    eventsLeft,     \* events the environment may still produce
    call            \* history of the current / last drawFrame call

rendererVars == << pc, stack, currentFrame, result, imageIndex, submitInfo,
                   presentInfo, fence, imgAvail, renderFin, numRF, fenceOps,
                   queue,
                   imageCount, imgState, presWait, winZero, pendingResize,
                   pendingOther, eventsLeft, call >>

cpuLocals == << currentFrame, result, imageIndex, submitInfo, presentInfo >>
syncVars == << fence, imgAvail, renderFin, numRF, fenceOps >>
chainVars == << imageCount, imgState, presWait >>
windowVars == << winZero, pendingResize, pendingOther, eventsLeft >>

NoSubmit == [waitSem |-> Garbage, signalIdx |-> Garbage, signalSem |-> Garbage,
             cb |-> Garbage, fence |-> Garbage]
NoPresent == [waitSem |-> Garbage, image |-> NoImage]

\* History of one drawFrame call: the slot it was entered with, what it did,
\* the results it got, how it ended, and whether the call before it ended on
\* the stale-acquire path.
NewCall(f, st) == [entryFrame |-> f, recreated |-> 0, fenceReset |-> FALSE,
                   wroteUniform |-> FALSE, recorded |-> FALSE,
                   submitted |-> FALSE, presented |-> FALSE,
                   acquire |-> "none", present |-> "none",
                   ended |-> "running", prevStale |-> st]

FreshImages(n) == [i \in 0 .. (n - 1) |-> "free"]
FreshWaits(n) == [i \in 0 .. (n - 1) |-> Garbage]

\* ---------------------------------------------- state of the single units
\* The units below are exercised on their own, each under its own
\* specification; under Spec they stay parked.

\* VulkanSwapchain and the surface / window it queries.
VARIABLES
    surface,        \* capabilities, formats, present modes, framebuffer size
    swapchain,      \* vk::raii::SwapchainKHR: NullHandle or what was created
    images,         \* std::vector<vk::Image> images
    imageViews,     \* std::vector<vk::raii::ImageView> imageViews
    surfaceFormat,  \* vk::SurfaceFormatKHR surfaceFormat
    extent,         \* vk::Extent2D extent
    scPc,           \* position inside the constructor / recreate()
    scHist          \* what the last two completed calls left behind

swapchainVars == << surface, swapchain, images, imageViews, surfaceFormat,
                    extent, scPc, scHist >>

NullHandle == "null"
\* A default-constructed vk::SurfaceFormatKHR.
NoFormat == [format |-> "Undefined", colorSpace |-> "SrgbNonlinear"]
\* Nothing observed yet.
NoObservation == [imageCount |-> 0, viewCount |-> 0, extent |-> << 0, 0 >>,
                  format |-> NoFormat]

SwapchainParked ==
    /\ surface = NullHandle
    /\ swapchain = NullHandle
    /\ images = << >>
    /\ imageViews = << >>
    /\ surfaceFormat = NoFormat
    /\ extent = << 0, 0 >>
    /\ scPc = "parked"
    /\ scHist = NullHandle

\* VulkanImage::transitionLayout / copyFromBuffer and the command buffer
\* they record into.
VARIABLES
    cmdBuffer,      \* commands recorded into the caller's command buffer
    imCall          \* the last call on the image: arguments and outcome

imageVars == << cmdBuffer, imCall >>

NoCall == [op |-> "none", outcome |-> "none"]

ImageParked ==
    /\ cmdBuffer = << >>
    /\ imCall = NoCall

\* OBJLoader::load: its input (what tinyobj parsed) and its locals.
VARIABLES
    shapeIndices,   \* the index_t entries of all shapes, in iteration order
    vertices,       \* output parameter std::vector<Vertex>& vertices
    indices,        \* output parameter std::vector<uint32_t>& indices
    uniqueVertices, \* std::unordered_map<Vertex, uint32_t>, as its nodes
    ldNext,         \* how many index entries the loops have processed
    ldPc            \* position inside load()

loaderVars == << shapeIndices, vertices, indices, uniqueVertices, ldNext, ldPc >>

LoaderParked ==
    /\ shapeIndices = << >>
    /\ vertices = << >>
    /\ indices = << >>
    /\ uniqueVertices = << >>
    /\ ldNext = 0
    /\ ldPc = "parked"

\* VulkanBuffer: the mapping pointer and the device memory behind it.
VARIABLES
    mappedData,     \* void* mappedData: NullHandle or the mapped address
    memory,         \* contents of the buffer's device memory, cell by cell
    bufCall,        \* the last call on the buffer: arguments and outcome
    bufMapped       \* which of map() / unmap() returned last

bufferVars == << mappedData, memory, bufCall, bufMapped >>

BufferParked ==
    /\ mappedData = NullHandle
    /\ memory = << >>
    /\ bufCall = NoCall
    /\ bufMapped = "none"

\* Mesh: its data, its two device buffers and the command buffer bind() and
\* draw() record into.
VARIABLES
    meshVertices,   \* std::vector<Vertex> Mesh::vertices
    meshIndices,    \* std::vector<uint32_t> Mesh::indices
    vertexBuffer,   \* std::unique_ptr<VulkanBuffer>: NoBuffer or the buffer
    indexBuffer,    \* std::unique_ptr<VulkanBuffer>: NoBuffer or the buffer
    commandBuffer,  \* commands recorded into the caller's command buffer
    meshCall        \* the last call on the mesh: outcome and what it saw

\* An empty std::unique_ptr<VulkanBuffer>.
NoBuffer == [usage |-> "none", elements |-> 0]

meshVars == << meshVertices, meshIndices, vertexBuffer, indexBuffer,
               commandBuffer, meshCall >>

MeshParked ==
    /\ meshVertices = << >>
    /\ meshIndices = << >>
    /\ vertexBuffer = NoBuffer
    /\ indexBuffer = NoBuffer
    /\ commandBuffer = << >>
    /\ meshCall = NoCall

\* VulkanSwapchain::chooseImageCount applied to what the surface reports.
VARIABLES
    surfaceCaps,    \* createSwapchain local surfaceCapabilities (count limits)
    chosenCount     \* createInfo.minImageCount, NotChosen before the call

countVars == << surfaceCaps, chosenCount >>

NotChosen == 0 - 1

CountParked ==
    /\ surfaceCaps = [minImageCount |-> 0, maxImageCount |-> 0]
    /\ chosenCount = NotChosen

\* CommandManager's one-shot command buffers and the two functions that use
\* them with a staging buffer: Mesh::createBuffers, Renderer::loadTexture.
VARIABLES
    osCaller,       \* the function running: createBuffers or loadTexture
    osPc,           \* its position
    osRound,        \* which of its copies it is at (createBuffers has two)
    osStaging,      \* the staging buffers created so far, in order
    osCmds,         \* the one-shot command buffers begun so far, in order
    otherWork       \* other submissions on the graphics queue, not completed

oneShotVars == << osCaller, osPc, osRound, osStaging, osCmds, otherWork >>

OneShotParked ==
    /\ osCaller = "none"
    /\ osPc = "parked"
    /\ osRound = 0
    /\ osStaging = << >>
    /\ osCmds = << >>
    /\ otherWork = 0

\* The Renderer's resources as its public operations leave them: one
\* operation at a time, the GPU left out.
VARIABLES
    rsLinux,            \* built with __linux__ (render pass and framebuffers)
    rsFrame,            \* Renderer::currentFrame
    rsChain,            \* *swapchain: its images, image views and extent
    rsDepth,            \* *depthImage
    rsRenderPass,       \* VulkanSwapchain::renderPass
    rsFramebuffers,     \* VulkanSwapchain::framebuffers
    rsMesh,             \* Renderer::mesh: null, empty or with data
    rsTexture,          \* Renderer::textureImage is set
    rsUniformBuffers,   \* Renderer::uniformBuffers
    rsDescriptorSets,   \* Renderer::descriptorSets
    rsCommandBuffers,   \* CommandManager::commandBuffers
    rsSync,             \* the three vectors of SyncManager
    rsCall              \* the last operation: how it ended, what it recorded

resourcesVars == << rsLinux, rsFrame, rsChain, rsDepth, rsRenderPass,
                    rsFramebuffers, rsMesh, rsTexture, rsUniformBuffers,
                    rsDescriptorSets, rsCommandBuffers, rsSync, rsCall >>

NoChain == [gen |-> 0, imageCount |-> 0, extent |-> << 0, 0 >>]
NoDepth == [extent |-> << 0, 0 >>, id |-> 0]
\* What framebuffers[index] past the end of the vector yields: no framebuffer.
NoFramebuffer == [renderPass |-> NullHandle,
                  color |-> [chain |-> 0 - 1, image |-> 0 - 1],
                  depth |-> 0 - 1, extent |-> << 0, 0 >>]
\* A descriptor set as allocated: nothing written to it.
NoSet == [written |-> FALSE, buffer |-> 0 - 1, texture |-> FALSE]
\* What recordCommandBuffer used; NoRecording when nothing was recorded.
NoRecording == [recorded |-> FALSE, renderPass |-> NullHandle,
                framebufferCount |-> 0, framebuffer |-> NoFramebuffer,
                chain |-> NoChain, depth |-> NoDepth, drew |-> FALSE,
                set |-> NoSet]
RsNoCall == [op |-> "none", outcome |-> "none", entryFrame |-> 0,
             imageIndex |-> NoImage, rec |-> NoRecording]

ResourcesParked ==
    /\ rsLinux = FALSE
    /\ rsFrame = 0
    /\ rsChain = NoChain
    /\ rsDepth = NoDepth
    /\ rsRenderPass = NullHandle
    /\ rsFramebuffers = << >>
    /\ rsMesh = NullHandle
    /\ rsTexture = FALSE
    /\ rsUniformBuffers = << >>
    /\ rsDescriptorSets = << >>
    /\ rsCommandBuffers = << >>
    /\ rsSync = NullHandle
    /\ rsCall = RsNoCall

unitVars == << swapchainVars, imageVars, loaderVars, bufferVars, meshVars, countVars, oneShotVars, resourcesVars >>
UnitsParked == SwapchainParked /\ ImageParked /\ LoaderParked /\ BufferParked /\ MeshParked /\ CountParked /\ OneShotParked /\ ResourcesParked

\* What the actions of one unit leave alone, and the other units parked.
besidesSwapchain == << rendererVars, imageVars, loaderVars, bufferVars, meshVars, countVars, oneShotVars, resourcesVars >>
besidesImage == << rendererVars, swapchainVars, loaderVars, bufferVars, meshVars, countVars, oneShotVars, resourcesVars >>
besidesLoader == << rendererVars, swapchainVars, imageVars, bufferVars, meshVars, countVars, oneShotVars, resourcesVars >>
besidesBuffer == << rendererVars, swapchainVars, imageVars, loaderVars, meshVars, countVars, oneShotVars, resourcesVars >>
besidesMesh == << rendererVars, swapchainVars, imageVars, loaderVars, bufferVars, countVars, oneShotVars, resourcesVars >>
besidesCount == << rendererVars, swapchainVars, imageVars, loaderVars, bufferVars, meshVars, oneShotVars, resourcesVars >>
besidesOneShot == << rendererVars, swapchainVars, imageVars, loaderVars, bufferVars, meshVars, countVars, resourcesVars >>
besidesResources == << rendererVars, swapchainVars, imageVars, loaderVars, bufferVars, meshVars, countVars, oneShotVars >>
OnlySwapchain == ImageParked /\ LoaderParked /\ BufferParked /\ MeshParked /\ CountParked /\ OneShotParked /\ ResourcesParked
OnlyImage == SwapchainParked /\ LoaderParked /\ BufferParked /\ MeshParked /\ CountParked /\ OneShotParked /\ ResourcesParked
OnlyLoader == SwapchainParked /\ ImageParked /\ BufferParked /\ MeshParked /\ CountParked /\ OneShotParked /\ ResourcesParked
OnlyBuffer == SwapchainParked /\ ImageParked /\ LoaderParked /\ MeshParked /\ CountParked /\ OneShotParked /\ ResourcesParked
OnlyMesh == SwapchainParked /\ ImageParked /\ LoaderParked /\ BufferParked /\ CountParked /\ OneShotParked /\ ResourcesParked
OnlyCount == SwapchainParked /\ ImageParked /\ LoaderParked /\ BufferParked /\ MeshParked /\ OneShotParked /\ ResourcesParked
OnlyOneShot == SwapchainParked /\ ImageParked /\ LoaderParked /\ BufferParked /\ MeshParked /\ CountParked /\ ResourcesParked
OnlyResources == SwapchainParked /\ ImageParked /\ LoaderParked /\ BufferParked /\ MeshParked /\ CountParked /\ OneShotParked

vars == << rendererVars, unitVars >>

\* ------------------------------------------------------------ construction
\* Renderer::Renderer + SyncManager::SyncManager: fences start signaled, one
\* render-finished semaphore per image of the first chain.
\* Mutant: the fences are created without the signaled flag.
fenceInfo_NoFlags == [flags |-> "None"]

\* The vk::FenceCreateInfo every in-flight fence is created with.
fenceInfo == [flags |-> "Signaled"]

RendererInit ==
    /\ pc = "loop"
    /\ stack = << >>
    /\ currentFrame = 0
    /\ result = "none"
    /\ imageIndex = NoImage
    /\ submitInfo = NoSubmit
    /\ presentInfo = NoPresent
    /\ fence = [f \in Slots |-> fenceInfo.flags = "Signaled"]
    /\ fenceOps = [f \in Slots |-> "created"]
    /\ imgAvail = [f \in Slots |-> FALSE]
    /\ imageCount \in ImageCounts
    /\ numRF = imageCount
    /\ renderFin = [s \in 0 .. (numRF - 1) |-> FALSE]
    /\ queue = << >>
    /\ imgState = FreshImages(imageCount)
    /\ presWait = FreshWaits(imageCount)
    /\ winZero = FALSE
    /\ pendingResize = 0
    /\ pendingOther = FALSE
    /\ eventsLeft = MaxEvents
    /\ call = [NewCall(0, FALSE) EXCEPT !.ended = "none"]

\* The program as constructed by Application::Application.
Init == RendererInit /\ UnitsParked

\* The renderer while a single unit is exercised: as constructed, untouched.
RendererParked == RendererInit /\ imageCount = MaxImages

\* ----------------------------------------------------------------- helpers
Top == stack[Len(stack)]
SetTop(fr) == [stack EXCEPT ![Len(stack)] = fr]
Pop == SubSeq(stack, 1, Len(stack) - 1)
RemoveAt(q, k) == SubSeq(q, 1, k - 1) \o SubSeq(q, k + 1, Len(q))
InFlight(f) == {k \in 1 .. Len(queue) : queue[k].cb = f}

\* SyncManager accessors: an index into the matching vector.  An index past
\* the end of renderFinishedSemaphores reads no semaphore of the program.
\* Mutant: one acquire semaphore shared by all slots.
getImageAvailableSemaphore_Shared(frameIndex) == frameIndex - frameIndex

getImageAvailableSemaphore(frameIndex) == frameIndex
getRenderFinishedSemaphore(frameIndex) ==
    IF frameIndex \in 0 .. (numRF - 1) THEN frameIndex ELSE Garbage

\* Mutant: every slot uses the first fence.
getInFlightFence_First(frameIndex) == frameIndex - frameIndex

getInFlightFence(frameIndex) == frameIndex

\* Mutant: the wait returns at once.
waitForFence_NoWait(frameIndex) == fence[frameIndex] \in BOOLEAN

\* SyncManager::waitForFence returns once the fence is signaled.
waitForFence(frameIndex) == fence[frameIndex]

\* Mutant: no wait for the device.
DeviceIdle_NoWait == TRUE

\* vkDeviceWaitIdle returns once every queue operation has completed: the
\* submissions and the semaphore waits of the queued presents.
DeviceIdle ==
    /\ queue = << >>
    /\ \A i \in DOMAIN imgState : imgState[i] # "queued"

\* Renderer::recreateSwapchain lines 462-463: a new invocation reads the size.
EnterRecreate == [pc |-> "loop", zero |-> winZero, got |-> FALSE]

\* ------------------------------------------------------------- environment
\* The window is resized (possibly to 0x0); GLFW queues a size callback.
ResizeEvent(z) ==
    /\ eventsLeft > 0
    /\ winZero' = z
    /\ pendingResize' = pendingResize + 1
    /\ eventsLeft' = eventsLeft - 1
    /\ UNCHANGED << pc, stack, cpuLocals, syncVars, queue, chainVars,
                    pendingOther, call >>
    /\ UNCHANGED unitVars

\* Any other window event (it wakes glfwWaitEvents, runs no callback here).
OtherEvent ==
    /\ eventsLeft > 0
    /\ ~pendingOther
    /\ pendingOther' = TRUE
    /\ eventsLeft' = eventsLeft - 1
    /\ UNCHANGED << pc, stack, cpuLocals, syncVars, queue, chainVars,
                    winZero, pendingResize, call >>
    /\ UNCHANGED unitVars

\* The GPU completes submission k: it consumes the signal of the semaphore
\* the submission waits on, signals its semaphore and its fence.
GpuComplete(k) ==
    /\ k \in 1 .. Len(queue)
    /\ imgAvail[queue[k].waitSem]
    /\ imgAvail' = [imgAvail EXCEPT ![queue[k].waitSem] = FALSE]
    /\ renderFin' = IF queue[k].signalSem \in DOMAIN renderFin
                        THEN [renderFin EXCEPT ![queue[k].signalSem] = TRUE]
                        ELSE renderFin
    /\ fence' = [fence EXCEPT ![queue[k].fence] = TRUE]
    /\ queue' = RemoveAt(queue, k)
    /\ UNCHANGED << pc, stack, cpuLocals, numRF, fenceOps, chainVars,
                    windowVars, call >>
    /\ UNCHANGED unitVars

\* The presentation engine takes the queued present of image i: it consumes
\* the signal of the semaphore the present waits on and releases the image.
PresentEngine(i) ==
    /\ i \in DOMAIN imgState
    /\ imgState[i] = "queued"
    /\ presWait[i] \in DOMAIN renderFin => renderFin[presWait[i]]
    /\ renderFin' = IF presWait[i] \in DOMAIN renderFin
                        THEN [renderFin EXCEPT ![presWait[i]] = FALSE]
                        ELSE renderFin
    /\ imgState' = [imgState EXCEPT ![i] = "free"]
    /\ presWait' = [presWait EXCEPT ![i] = Garbage]
    /\ UNCHANGED << pc, stack, cpuLocals, fence, imgAvail, numRF, fenceOps,
                    queue, imageCount, windowVars, call >>
    /\ UNCHANGED unitVars

\* ------------------------------------------------- Application::mainLoop
\* while (!glfwWindowShouldClose(window)): the user may have asked to close.
MainLoopTest(shouldClose) ==
    /\ pc = "loop"
    /\ pc' = IF shouldClose THEN "closing" ELSE "poll"
    /\ UNCHANGED << stack, cpuLocals, syncVars, queue, chainVars, windowVars, call >>
    /\ UNCHANGED unitVars

\* glfwPollEvents dispatches a queued size event to
\* Application::framebufferResizeCallback, which calls
\* Renderer::handleFramebufferResize -> recreateSwapchain.
PollDispatch ==
    /\ pc = "poll"
    /\ stack = << >>
    /\ pendingResize > 0
    /\ pendingResize' = pendingResize - 1
    /\ stack' = << EnterRecreate >>
    /\ UNCHANGED << pc, cpuLocals, syncVars, queue, chainVars, winZero,
                    pendingOther, eventsLeft, call >>
    /\ UNCHANGED unitVars

\* glfwPollEvents returns; renderer->drawFrame() is entered.
PollReturn ==
    /\ pc = "poll"
    /\ stack = << >>
    /\ pendingResize = 0
    /\ pendingOther' = FALSE
    /\ pc' = "wait"
    /\ call' = NewCall(currentFrame, call.ended = "stale")
    /\ UNCHANGED << stack, cpuLocals, syncVars, queue, chainVars, winZero,
                    pendingResize, eventsLeft >>
    /\ UNCHANGED unitVars

\* --------------------------------------------------- Renderer::drawFrame
\* syncManager->waitForFence(currentFrame)
DrawWaitFence ==
    /\ pc = "wait"
    /\ waitForFence(currentFrame)
    /\ pc' = "acquire"
    /\ UNCHANGED << stack, cpuLocals, syncVars, queue, chainVars, windowVars, call >>
    /\ UNCHANGED unitVars

\* acquireNextImage returns eErrorOutOfDateKHR: the semaphore is untouched,
\* recreateSwapchain() is called (and drawFrame returns when it is back).
AcquireStale ==
    /\ pc = "acquire"
    /\ result' = "OutOfDate"
    /\ pc' = "acq_rc"
    /\ stack' = << EnterRecreate >>
    /\ call' = [call EXCEPT !.acquire = "OutOfDate"]
    /\ UNCHANGED << currentFrame, imageIndex, submitInfo, presentInfo,
                    syncVars, queue, chainVars, windowVars >>
    /\ UNCHANGED unitVars

\* acquireNextImage returns another error: drawFrame throws.
AcquireError ==
    /\ pc = "acquire"
    /\ result' = "Error"
    /\ pc' = "thrown"
    /\ call' = [call EXCEPT !.acquire = "Error", !.ended = "thrown"]
    /\ UNCHANGED << stack, currentFrame, imageIndex, submitInfo, presentInfo,
                    syncVars, queue, chainVars, windowVars >>
    /\ UNCHANGED unitVars

\* acquireNextImage returns eSuccess or eSuboptimalKHR with a free image i;
\* the image-available semaphore of the slot gets its signal.
AcquireImage(i, r) ==
    /\ pc = "acquire"
    /\ r \in {"Success", "Suboptimal"}
    /\ i \in DOMAIN imgState
    /\ imgState[i] = "free"
    /\ imgState' = [imgState EXCEPT ![i] = "acquired"]
    /\ imgAvail' = [imgAvail EXCEPT
                        ![getImageAvailableSemaphore(currentFrame)] = TRUE]
    /\ result' = r
    /\ imageIndex' = i
    /\ pc' = "update"
    /\ call' = [call EXCEPT !.acquire = r]
    /\ UNCHANGED << stack, currentFrame, submitInfo, presentInfo, fence,
                    renderFin, numRF, fenceOps, queue, imageCount, presWait,
                    windowVars >>
    /\ UNCHANGED unitVars

\* updateUniformBuffer(currentFrame): memcpy into the mapped buffer.
DrawUpdateUniform ==
    /\ pc = "update"
    /\ pc' = "record"
    /\ call' = [call EXCEPT !.wroteUniform = TRUE]
    /\ UNCHANGED << stack, cpuLocals, syncVars, queue, chainVars, windowVars >>
    /\ UNCHANGED unitVars

\* resetFence(currentFrame); command buffer reset; recordCommandBuffer.
DrawRecord ==
    /\ pc = "record"
    /\ fence' = [fence EXCEPT ![getInFlightFence(currentFrame)] = FALSE]
    /\ fenceOps' = [fenceOps EXCEPT ![getInFlightFence(currentFrame)] = "reset"]
    /\ pc' = "submit"
    /\ call' = [call EXCEPT !.fenceReset = TRUE, !.recorded = TRUE]
    /\ UNCHANGED << stack, cpuLocals, imgAvail, renderFin, numRF, queue,
                    chainVars, windowVars >>
    /\ UNCHANGED unitVars

\* Mutant: the render-finished semaphore is indexed by the frame slot.
SignalSemaphoreIndex_BySlot == currentFrame

\* The index drawFrame passes to getRenderFinishedSemaphore (line 133).
SignalSemaphoreIndex == imageIndex

\* Mutant: the submission is given the fence of the other slot.
MakeSubmitInfo_OtherFence ==
    [waitSem |-> getImageAvailableSemaphore(currentFrame),
     signalIdx |-> SignalSemaphoreIndex,
     signalSem |-> getRenderFinishedSemaphore(SignalSemaphoreIndex),
     cb |-> currentFrame,
     fence |-> getInFlightFence((currentFrame + 1) % MAX_FRAMES_IN_FLIGHT)]

\* The vk::SubmitInfo and fence of lines 131-144.
MakeSubmitInfo ==
    [waitSem |-> getImageAvailableSemaphore(currentFrame),
     signalIdx |-> SignalSemaphoreIndex,
     signalSem |-> getRenderFinishedSemaphore(SignalSemaphoreIndex),
     cb |-> currentFrame,
     fence |-> getInFlightFence(currentFrame)]

\* graphicsQueue.submit(submitInfo, fence).  A semaphore read past the end
\* of the vector is undefined: the process dies in the driver, or the
\* submission goes through with a handle that is no semaphore.
DrawSubmit ==
    /\ pc = "submit"
    /\ submitInfo' = MakeSubmitInfo
    /\ call' = [call EXCEPT !.submitted = TRUE]
    /\ \/ /\ pc' = "present"
          /\ queue' = Append(queue, [waitSem |-> MakeSubmitInfo.waitSem,
                                      signalSem |-> MakeSubmitInfo.signalSem,
                                      cb |-> MakeSubmitInfo.cb,
                                      fence |-> MakeSubmitInfo.fence,
                                      image |-> imageIndex,
                                      chainDestroyed |-> FALSE])
          /\ fenceOps' = [fenceOps EXCEPT ![MakeSubmitInfo.fence] = "submitted"]
       \/ /\ MakeSubmitInfo.signalSem = Garbage
          /\ pc' = "crashed"
          /\ queue' = queue
          /\ fenceOps' = fenceOps
    /\ UNCHANGED << stack, currentFrame, result, imageIndex, presentInfo,
                    fence, imgAvail, renderFin, numRF, chainVars, windowVars >>
    /\ UNCHANGED unitVars

\* Mutant: the present waits on the semaphore indexed by the frame slot.
MakePresentInfo_BySlot ==
    [waitSem |-> getRenderFinishedSemaphore(currentFrame), image |-> imageIndex]

\* The vk::PresentInfoKHR of lines 147-154: pWaitSemaphores is the
\* signalSemaphores array of the submit.
MakePresentInfo == [waitSem |-> submitInfo.signalSem, image |-> imageIndex]

\* Mutant: every present status but Success recreates the swapchain.
PresentRecreates_NotSuccess(r) == r # "Success"

\* Mutant: only a stale chain is recreated after present.
PresentRecreates_StaleOnly(r) == r = "OutOfDate"

\* Whether drawFrame recreates the chain for result r of presentKHR.
PresentRecreates(r) == r \in {"OutOfDate", "Suboptimal"}

\* result = presentKHR(presentInfoKHR), returning r.
DrawPresent(r) ==
    /\ pc = "present"
    /\ r \in PresentResults
    /\ presentInfo' = MakePresentInfo
    /\ imgState' = [imgState EXCEPT ![MakePresentInfo.image] = "queued"]
    /\ presWait' = [presWait EXCEPT
                        ![MakePresentInfo.image] = MakePresentInfo.waitSem]
    /\ result' = r
    /\ pc' = "presented"
    /\ call' = [call EXCEPT !.presented = TRUE, !.present = r]
    /\ UNCHANGED << stack, currentFrame, imageIndex, submitInfo, syncVars,
                    queue, imageCount, windowVars >>
    /\ UNCHANGED unitVars

\* Lines 157-163: recreate, throw, or advance currentFrame and return.
DrawPresentResult ==
    /\ pc = "presented"
    /\ IF PresentRecreates(result)
          THEN /\ pc' = "pres_rc"
               /\ stack' = << EnterRecreate >>
               /\ UNCHANGED << cpuLocals, call >>
          ELSE IF result # "Success"
          THEN /\ pc' = "thrown"
               /\ call' = [call EXCEPT !.ended = "thrown"]
               /\ UNCHANGED << stack, cpuLocals >>
          ELSE /\ pc' = "loop"
               /\ currentFrame' = (currentFrame + 1) % MAX_FRAMES_IN_FLIGHT
               /\ result' = "none"
               /\ imageIndex' = NoImage
               /\ submitInfo' = NoSubmit
               /\ presentInfo' = NoPresent
               /\ call' = [call EXCEPT !.ended = "normal"]
               /\ stack' = stack
    /\ UNCHANGED << syncVars, queue, chainVars, windowVars >>
    /\ UNCHANGED unitVars

\* ------------------------------------------ Renderer::recreateSwapchain
InDrawFrame == pc \in {"acq_rc", "pres_rc"}

\* while (width == 0 || height == 0) { glfwGetFramebufferSize(...); ...
RcLoopTest ==
    /\ stack # << >>
    /\ Top.pc = "loop"
    /\ stack' = IF Top.zero
                    THEN SetTop([pc |-> "waitev", zero |-> winZero,
                                 got |-> FALSE])
                    ELSE SetTop([Top EXCEPT !.pc = "idle"])
    /\ UNCHANGED << pc, cpuLocals, syncVars, queue, chainVars, windowVars, call >>
    /\ UNCHANGED unitVars

\* ... glfwWaitEvents(): a queued size event runs the resize callback, which
\* enters recreateSwapchain again.
RcWaitDispatch ==
    /\ stack # << >>
    /\ Top.pc = "waitev"
    /\ pendingResize > 0
    /\ pendingResize' = pendingResize - 1
    /\ stack' = Append(SetTop([Top EXCEPT !.got = TRUE]), EnterRecreate)
    /\ UNCHANGED << pc, cpuLocals, syncVars, queue, chainVars, winZero,
                    pendingOther, eventsLeft, call >>
    /\ UNCHANGED unitVars

\* ... glfwWaitEvents() returns once it has processed at least one event.
RcWaitReturn ==
    /\ stack # << >>
    /\ Top.pc = "waitev"
    /\ pendingResize = 0
    /\ Top.got \/ pendingOther
    /\ pendingOther' = FALSE
    /\ stack' = SetTop([Top EXCEPT !.pc = "loop", !.got = FALSE])
    /\ UNCHANGED << pc, cpuLocals, syncVars, queue, chainVars, winZero,
                    pendingResize, eventsLeft, call >>
    /\ UNCHANGED unitVars

\* device->getDevice().waitIdle()
RcWaitIdle ==
    /\ stack # << >>
    /\ Top.pc = "idle"
    /\ DeviceIdle
    /\ stack' = SetTop([Top EXCEPT !.pc = "rebuild"])
    /\ UNCHANGED << pc, cpuLocals, syncVars, queue, chainVars, windowVars, call >>
    /\ UNCHANGED unitVars

\* Where control goes when the outermost recreateSwapchain returns.
AfterRecreate == IF pc = "poll" THEN "poll" ELSE "loop"

\* Mutant: the slot advances on every return from recreateSwapchain.
FrameAfterRecreate_Always == (currentFrame + 1) % MAX_FRAMES_IN_FLIGHT

\* currentFrame when drawFrame returns after recreateSwapchain: line 117
\* returns at once, line 158 falls through to line 163.
FrameAfterRecreate ==
    IF pc = "pres_rc" THEN (currentFrame + 1) % MAX_FRAMES_IN_FLIGHT
                      ELSE currentFrame

\* swapchain->recreate() (waitIdle, cleanup, createSwapchain with n images,
\* createImageViews) and createDepthResources(); then the invocation
\* returns: to glfwWaitEvents of the invocation below it, to glfwPollEvents,
\* or into drawFrame, which returns (after a stale acquire) or advances
\* currentFrame and returns (after present).
RcRebuild(n) ==
    /\ stack # << >>
    /\ Top.pc = "rebuild"
    /\ DeviceIdle
    /\ n \in ImageCounts
    /\ imageCount' = n
    /\ imgState' = FreshImages(n)
    /\ presWait' = FreshWaits(n)
    /\ queue' = [k \in 1 .. Len(queue) |->
                    [queue[k] EXCEPT !.chainDestroyed = TRUE]]
    /\ stack' = Pop
    /\ IF Len(stack) > 1
          THEN /\ pc' = pc
               /\ currentFrame' = currentFrame
               /\ call' = IF InDrawFrame
                              THEN [call EXCEPT !.recreated = @ + 1]
                              ELSE call
          ELSE /\ pc' = AfterRecreate
               /\ currentFrame' = FrameAfterRecreate
               /\ call' = IF pc = "acq_rc"
                              THEN [call EXCEPT !.recreated = @ + 1,
                                                !.ended = "stale"]
                              ELSE IF pc = "pres_rc"
                              THEN [call EXCEPT !.recreated = @ + 1,
                                                !.ended = "normal"]
                              ELSE call
    /\ IF Len(stack) > 1
          THEN UNCHANGED << result, imageIndex, submitInfo, presentInfo >>
          ELSE /\ result' = "none"
               /\ imageIndex' = NoImage
               /\ submitInfo' = NoSubmit
               /\ presentInfo' = NoPresent
    /\ UNCHANGED << syncVars, windowVars >>
    /\ UNCHANGED unitVars

\* ------------------------------------------------------------ program end
\* mainLoop after the loop: renderer->waitIdle()
ExitWaitIdle ==
    /\ pc = "closing"
    /\ DeviceIdle
    /\ pc' = "exit"
    /\ UNCHANGED << stack, cpuLocals, syncVars, queue, chainVars, windowVars, call >>
    /\ UNCHANGED unitVars

\* Application::~Application -> cleanup(): renderer.reset(), reached after
\* mainLoop returned or while an exception leaves drawFrame.
Teardown ==
    /\ pc \in {"exit", "thrown"}
    /\ pc' = "done"
    /\ UNCHANGED << stack, cpuLocals, syncVars, queue, chainVars, windowVars, call >>
    /\ UNCHANGED unitVars

\* ---------------------------------------------------------- specification
Next ==
    \/ \E z \in BOOLEAN : ResizeEvent(z)
    \/ OtherEvent
    \/ \E k \in 1 .. MAX_FRAMES_IN_FLIGHT + 1 : GpuComplete(k)
    \/ \E i \in 0 .. (MaxImages - 1) : PresentEngine(i)
    \/ \E shouldClose \in BOOLEAN : MainLoopTest(shouldClose)
    \/ PollDispatch
    \/ PollReturn
    \/ DrawWaitFence
    \/ AcquireStale
    \/ AcquireError
    \/ \E i \in 0 .. (MaxImages - 1), r \in AcquireResults : AcquireImage(i, r)
    \/ DrawUpdateUniform
    \/ DrawRecord
    \/ DrawSubmit
    \/ \E r \in PresentResults : DrawPresent(r)
    \/ DrawPresentResult
    \/ RcLoopTest
    \/ RcWaitDispatch
    \/ RcWaitReturn
    \/ RcWaitIdle
    \/ \E n \in ImageCounts : RcRebuild(n)
    \/ ExitWaitIdle
    \/ Teardown

Spec == Init /\ [][Next]_vars

\* ------------------------------------------------------------------ claims
Signalling(s) == {k \in 1 .. Len(queue) : queue[k].signalSem = s}
WaitingOn(s) == {k \in 1 .. Len(queue) : queue[k].waitSem = s}
Returned == pc \in {"loop", "poll"}

\* C1: every frame slot has at most one submitted command buffer the GPU has
\* not completed, so at most MAX_FRAMES_IN_FLIGHT submissions are pending.
C1_OnePendingPerSlot ==
    /\ \A f \in Slots : Cardinality(InFlight(f)) <= 1
    /\ Len(queue) <= MAX_FRAMES_IN_FLIGHT

\* Both slots pending, the second just submitted.
C1_Witness ==
    /\ pc = "present"
    /\ Len(queue) = MAX_FRAMES_IN_FLIGHT
    /\ InFlight(0) # {} /\ InFlight(1) # {}

\* C2: when drawFrame writes uniform buffer f, resets or re-records command
\* buffer f, no submission using slot f is in flight and fence f has been
\* seen signaled (it stays signaled until drawFrame itself resets it).
C2_CpuWritesIdleSlot ==
    /\ pc \in {"update", "record"} => fence[currentFrame]
    /\ pc \in {"update", "record", "submit"} => InFlight(currentFrame) = {}

\* The CPU is about to reset and re-record slot 1, whose uniform buffer it
\* has just written, while the submission of slot 0 is still in flight.
C2_Witness ==
    /\ pc = "record"
    /\ call.wroteUniform
    /\ currentFrame = 1
    /\ InFlight(0) # {}

\* C3: a submission waits on the image-available semaphore of the current
\* slot, signals the render-finished semaphore indexed by the acquired image
\* index and the fence of the current slot; the present waits on that same
\* semaphore and presents that same image.
C3_SubmitPresentSync ==
    /\ pc \in {"present", "presented", "pres_rc"} =>
          /\ submitInfo.waitSem = currentFrame
          /\ submitInfo.signalIdx = imageIndex
          /\ submitInfo.signalSem = getRenderFinishedSemaphore(imageIndex)
          /\ submitInfo.fence = currentFrame
          /\ submitInfo.cb = currentFrame
    /\ pc = "present" =>
          /\ imgState[imageIndex] = "acquired"
          /\ \A i \in DOMAIN imgState : imgState[i] = "acquired" => i = imageIndex
    /\ pc = "presented" =>
          /\ presentInfo.waitSem = submitInfo.signalSem
          /\ presentInfo.image = imageIndex
          /\ presentInfo.waitSem = getRenderFinishedSemaphore(imageIndex)
          /\ imgState[imageIndex] = "queued" =>
                presWait[imageIndex] = getRenderFinishedSemaphore(imageIndex)

\* A frame was submitted and presented whose image index differs from its
\* slot index and is larger than every slot index.
C3_Witness ==
    /\ pc = "presented"
    /\ imageIndex >= MAX_FRAMES_IN_FLIGHT
    /\ currentFrame = 1
    /\ submitInfo.signalSem = imageIndex

\* C4: no render-finished semaphore has two signals outstanding: the pending
\* signals of in-flight submissions plus a signal no present has consumed
\* yet are at most one per semaphore.
C4_OneSignalPerImageSemaphore ==
    \A s \in DOMAIN renderFin :
        Cardinality(Signalling(s)) + (IF renderFin[s] THEN 1 ELSE 0) <= 1

\* Two in-flight submissions signal two different semaphores while the
\* signal of a third still waits for its present.
C4_Witness ==
    /\ Len(queue) = 2
    /\ queue[1].signalSem # queue[2].signalSem
    /\ queue[1].signalSem \in DOMAIN renderFin
    /\ queue[2].signalSem \in DOMAIN renderFin
    /\ \E s \in DOMAIN renderFin :
          renderFin[s] /\ \E i \in DOMAIN imgState :
                             imgState[i] = "queued" /\ presWait[i] = s

\* C5: the semaphore drawFrame passes to acquireNextImage holds no signal
\* and no in-flight submission waits on it.
C5_AcquireSemaphoreFree ==
    pc = "acquire" =>
        /\ ~imgAvail[getImageAvailableSemaphore(currentFrame)]
        /\ WaitingOn(getImageAvailableSemaphore(currentFrame)) = {}

\* The call after a stale-acquire early return acquires with the semaphore
\* of slot 1 again.
C5_Witness ==
    /\ pc = "acquire"
    /\ call.prevStale
    /\ currentFrame = 1

\* C6 (as claimed): a drawFrame that ended on the stale-acquire path
\* recreated the swapchain exactly once and did nothing else.
C6_StaleRecreatesOnce ==
    (Returned /\ call.ended = "stale") =>
        /\ call.recreated = 1
        /\ ~call.fenceReset /\ ~call.wroteUniform /\ ~call.recorded
        /\ ~call.submitted /\ ~call.presented

\* C7: the stale-acquire path leaves currentFrame as it was at entry, until
\* the next drawFrame is entered with it, and submits nothing.
C7_StaleKeepsSlot ==
    /\ pc = "acq_rc" => currentFrame = call.entryFrame
    /\ (Returned /\ call.ended = "stale") =>
          /\ currentFrame = call.entryFrame
          /\ ~call.submitted /\ ~call.presented
    /\ pc \in {"wait", "acquire"} => currentFrame = call.entryFrame

\* After a stale-acquire return from slot 1 the next call waits on slot 1.
C7_Witness ==
    /\ pc = "wait"
    /\ call.prevStale
    /\ currentFrame = 1

\* C8: once drawFrame is past its handling of the present result, a result
\* of Suboptimal or OutOfDate has recreated the swapchain in that call, and
\* a result of Success has not.
C8_PresentRecreation ==
    pc \notin {"presented", "pres_rc"} =>
        /\ call.present \in {"Suboptimal", "OutOfDate"} => call.recreated >= 1
        /\ call.present = "Success" => call.recreated = 0

\* A suboptimal present recreated the swapchain although no window event
\* ever occurred.
C8_Witness ==
    /\ pc = "loop"
    /\ call.present = "Suboptimal"
    /\ call.recreated = 1
    /\ eventsLeft = MaxEvents

\* C9 (as claimed): recreateSwapchain only ever runs as called by drawFrame
\* (after acquire or after present), never on behalf of the resize callback.
C9_CallbackNeverRecreates ==
    stack # << >> => (InDrawFrame /\ Len(stack) = 1)

\* C10: the chain is only destroyed with the device idle: no submission is
\* in flight when the rebuild starts, and none ever loses its chain.
C10_RecreateAfterIdle ==
    /\ \A k \in 1 .. Len(queue) : ~queue[k].chainDestroyed
    /\ (stack # << >> /\ Top.pc = "rebuild") =>
          (queue = << >> /\ \A i \in DOMAIN imgState : imgState[i] # "queued")

\* The present-triggered recreation is about to rebuild the chain of a frame
\* it submitted in this call.
C10_Witness ==
    /\ pc = "pres_rc"
    /\ stack # << >>
    /\ Top.pc = "rebuild"
    /\ call.submitted

\* C13 (as claimed): an invocation of recreateSwapchain does not reach the
\* idle wait or the rebuild while the size it last observed has a zero
\* width or height, and once it has observed a nonzero size it proceeds to
\* them: it is never left blocked in glfwWaitEvents with no event to wake it
\* (a wait that a pending event or a returning callback ends is allowed).
C13_ProceedsOnNonzeroSize ==
    \A k \in 1 .. Len(stack) :
        /\ stack[k].pc \in {"idle", "rebuild"} => ~stack[k].zero
        /\ (~stack[k].zero /\ stack[k].pc = "waitev") =>
              \/ k < Len(stack)
              \/ stack[k].got
              \/ pendingResize > 0
              \/ pendingOther

\* C14 (as claimed): the renderer's GPU resources are only destroyed with
\* the GPU idle, on the window-close exit and when drawFrame has thrown.
C14_IdleBeforeTeardown ==
    pc = "done" => DeviceIdle

\* C20: an acquire or present status other than Success, Suboptimal and
\* OutOfDate makes drawFrame throw without recreating the swapchain and
\* without advancing currentFrame, for acquire before the fence is reset and
\* before anything is submitted; an acquire returning Suboptimal goes on to
\* render and recreates nothing before present.
C20_UnexpectedStatusFatal ==
    /\ call.acquire = "Error" =>
          /\ pc \in {"thrown", "done"}
          /\ call.ended = "thrown"
          /\ call.recreated = 0
          /\ currentFrame = call.entryFrame
          /\ ~call.fenceReset /\ ~call.wroteUniform /\ ~call.recorded
          /\ ~call.submitted /\ ~call.presented
    /\ (call.present = "Error" /\ pc # "presented") =>
          /\ pc \in {"thrown", "done"}
          /\ call.ended = "thrown"
          /\ call.recreated = 0
          /\ currentFrame = call.entryFrame
    /\ call.ended = "thrown" => "Error" \in {call.acquire, call.present}
    /\ call.acquire = "Suboptimal" =>
          /\ pc \notin {"acquire", "acq_rc"}
          /\ call.ended # "stale"
          /\ pc \in {"update", "record", "submit", "present", "presented"} =>
                call.recreated = 0
          /\ pc = "present" => (call.wroteUniform /\ call.recorded /\ call.submitted)

\* drawFrame threw on the present status of a frame it rendered after a
\* suboptimal acquire, in slot 1.
C20_Witness ==
    /\ pc = "thrown"
    /\ call.present = "Error"
    /\ call.acquire = "Suboptimal"
    /\ call.submitted
    /\ currentFrame = 1

\* C21: a fence the CPU has neither reset nor passed to a submission is
\* signaled, as it was created: the first waitForFence of each slot finds
\* its fence signaled and returns with no submission of that slot made.
C21_FirstWaitReturns ==
    /\ \A f \in Slots : fenceOps[f] = "created" => (fence[f] /\ InFlight(f) = {})
    /\ (pc = "wait" /\ fenceOps[currentFrame] = "created") =>
          waitForFence(currentFrame)

\* The first wait of slot 1 has returned: its fence was never reset and no
\* submission was made for it, while slot 0 has had its submission.
C21_Witness ==
    /\ pc = "acquire"
    /\ currentFrame = 1
    /\ fenceOps[1] = "created"
    /\ fenceOps[0] = "submitted"

\* C22: a fence is reset only by the drawFrame call that has waited for it
\* (it is signaled when the reset comes), and stays reset only until that
\* call submits with it; the fence passed to a submission is unsignaled at
\* submit time and stays so while the submission is in flight; a fence whose
\* last reset has not been followed by a submission is not reset again.
C22_ResetBetweenWaitAndSubmit ==
    /\ \A f \in Slots : fenceOps[f] = "reset" =>
          /\ f = currentFrame
          /\ f = call.entryFrame
          /\ call.fenceReset
          /\ pc \in {"submit", "crashed"}
          /\ ~fence[f]
    /\ pc = "record" =>
          /\ fence[getInFlightFence(currentFrame)]
          /\ fenceOps[getInFlightFence(currentFrame)] # "reset"
    /\ pc = "submit" =>
          /\ MakeSubmitInfo.fence = currentFrame
          /\ fenceOps[MakeSubmitInfo.fence] = "reset"
          /\ ~fence[MakeSubmitInfo.fence]
    /\ \A k \in 1 .. Len(queue) :
          ~fence[queue[k].fence] /\ fenceOps[queue[k].fence] = "submitted"

\* The fence of slot 0 has been reset for the second time (slot 1 has had
\* its submission since the first) and is about to be submitted again.
C22_Witness ==
    /\ pc = "submit"
    /\ currentFrame = 0
    /\ fenceOps[0] = "reset"
    /\ fenceOps[1] = "submitted"

\* C26 (as claimed): whenever drawFrame waits for a fence, the fence is
\* signaled or attached to a submission in flight, and a drawFrame call
\* whose acquire and present returned Success or Suboptimal is never left
\* blocked for good: not in recreateSwapchain's event wait with the GPU
\* idle, a window of nonzero size and no event to wake it.
C26_DrawFrameTerminates ==
    /\ pc = "wait" =>
          \/ fence[currentFrame]
          \/ \E k \in 1 .. Len(queue) : queue[k].fence = currentFrame
    /\ ~ /\ pc = "pres_rc"
         /\ call.acquire \in {"Success", "Suboptimal"}
         /\ call.present \in {"Success", "Suboptimal"}
         /\ Len(stack) = 1
         /\ Top.pc = "waitev"
         /\ ~Top.zero /\ ~Top.got
         /\ ~winZero
         /\ pendingResize = 0 /\ ~pendingOther
         /\ DeviceIdle

\* C27 (as claimed): the image index of a frame about to be submitted is
\* smaller than the number of render-finished semaphores.
C27_ImageIndexInRange ==
    pc = "submit" => imageIndex < numRF

\* ======================================================== VulkanSwapchain
\* Bounds of the surfaces the driver may report.
MaxSurfaceImages == 4
MaxDim == 2

\* capabilities.currentExtent.width of a surface whose size the swapchain
\* decides (chooseExtent, line 109): 0xFFFFFFFF, the uint32 with all bits
\* set, written here as the value it has as a signed 32-bit integer.
SizeUndefined == 0 - 1

Max(a, b) == IF a < b THEN b ELSE a
\* std::clamp(v, lo, hi)
Clamp(v, lo, hi) == IF v < lo THEN lo ELSE IF hi < v THEN hi ELSE v

\* What a display may report: its format list (never empty) and its
\* present modes.
Displays ==
    { [formats |-> << [format |-> "B8G8R8A8Unorm", colorSpace |-> "SrgbNonlinear"],
                      [format |-> "B8G8R8A8Srgb", colorSpace |-> "SrgbNonlinear"] >>,
       presentModes |-> << "Fifo", "Mailbox" >>],
      [formats |-> << [format |-> "B8G8R8A8Srgb", colorSpace |-> "ExtendedSrgbLinear"],
                      [format |-> "R8G8B8A8Unorm", colorSpace |-> "SrgbNonlinear"] >>,
       presentModes |-> << "Fifo" >>] }

\* Image-count limits: maxImageCount is 0 (no limit) or the minimum itself.
CountLimits ==
    { c \in ((MaxSurfaceImages - 2) .. MaxSurfaceImages) \X (0 .. MaxSurfaceImages) :
        c[2] = 0 \/ c[1] = c[2] }

\* Framebuffer sizes glfwGetFramebufferSize may report.
FramebufferSizes ==
    { fb \in (0 .. (MaxDim + 1)) \X (0 .. (MaxDim + 1)) :
        fb[1] = fb[2] \/ fb[1] = fb[2] + 1 }

\* currentExtent of a surface with framebuffer size fb: the size itself on
\* platforms that fix it (never zero when a chain is created), or the
\* special value on platforms that let the swapchain choose.
CurrentExtents(fb) ==
    { << SizeUndefined, SizeUndefined >> } \cup
    (IF fb[1] \in 1 .. MaxDim /\ fb[2] \in 1 .. MaxDim THEN { fb } ELSE { })

\* Everything createSwapchain asks the physical device and the window.
Surfaces ==
    { [minImageCount |-> c[1], maxImageCount |-> c[2],
       currentExtent |-> ce,
       minImageExtent |-> << 1, 1 >>,
       maxImageExtent |-> << MaxDim, MaxDim >>,
       formats |-> d.formats, presentModes |-> d.presentModes,
       framebuffer |-> fb, driverExtra |-> x] :
      c \in CountLimits, d \in Displays,
      fb \in { << 1, 1 >> }, ce \in CurrentExtents(<< 1, 1 >>),
      x \in 0 .. 1 }

\* Mutant: the count is derived from the images the object currently holds.
chooseImageCount_FromCurrent(capabilities) == Len(images) + 1

\* Mutant: one more than the minimum, whatever the maximum.
chooseImageCount_MinPlusOne(capabilities) == capabilities.minImageCount + 1

\* VulkanSwapchain::chooseImageCount
chooseImageCount(capabilities) ==
    LET count == Max(3, capabilities.minImageCount)
    IN  IF (0 < capabilities.maxImageCount)
           /\ (capabilities.maxImageCount < count)
            THEN capabilities.maxImageCount
            ELSE count

\* VulkanSwapchain::chooseSurfaceFormat: the first B8G8R8A8Srgb /
\* SrgbNonlinear entry, else the first entry.
chooseSurfaceFormat(formats) ==
    LET wanted == { i \in 1 .. Len(formats) :
                      /\ formats[i].format = "B8G8R8A8Srgb"
                      /\ formats[i].colorSpace = "SrgbNonlinear" }
    IN  IF wanted # { }
            THEN formats[CHOOSE i \in wanted : \A j \in wanted : i <= j]
            ELSE formats[1]

\* VulkanSwapchain::choosePresentMode
choosePresentMode(modes) ==
    IF \E i \in 1 .. Len(modes) : modes[i] = "Mailbox" THEN "Mailbox" ELSE "Fifo"

\* VulkanSwapchain::chooseExtent
chooseExtent(capabilities) ==
    IF capabilities.currentExtent[1] # SizeUndefined
        THEN capabilities.currentExtent
        ELSE << Clamp(capabilities.framebuffer[1],
                      capabilities.minImageExtent[1],
                      capabilities.maxImageExtent[1]),
                Clamp(capabilities.framebuffer[2],
                      capabilities.minImageExtent[2],
                      capabilities.maxImageExtent[2]) >>

\* The vk::SwapchainCreateInfoKHR of createSwapchain (lines 17-30).
SwapchainCreateInfo ==
    [minImageCount |-> chooseImageCount(surface),
     imageFormat |-> chooseSurfaceFormat(surface.formats).format,
     imageColorSpace |-> chooseSurfaceFormat(surface.formats).colorSpace,
     imageExtent |-> chooseExtent(surface),
     presentMode |-> choosePresentMode(surface.presentModes)]

\* Handles of the chain created after the chain with generation g.
NextGen(g) == 1 - g
\* swapchain.getImages(): the driver creates at least minImageCount images.
DriverImages(gen, createInfo) ==
    [k \in 1 .. (createInfo.minImageCount + surface.driverExtra) |-> << gen, k >>]

\* What a user of the object can observe of the chain.
Observable ==
    [imageCount |-> Len(images), viewCount |-> Len(imageViews),
     extent |-> extent, format |-> surfaceFormat]

\* History: what the last completed call left, whether that equalled what
\* the call before it left, the image count before it, how many recreate()
\* calls in a row completed with the surface untouched since the first of
\* them began (at most 2 are counted), whether the surface changed during
\* the call in progress, and the generation of the handles in use.
NoHist == [last |-> NoObservation, same |-> FALSE, prevCount |-> 0, quiet |-> 0,
           dirty |-> FALSE, gen |-> 0]

\* The constructor is entered for some surface.
SwapchainStart ==
    /\ surface \in Surfaces
    /\ swapchain = NullHandle
    /\ images = << >>
    /\ imageViews = << >>
    /\ surfaceFormat = NoFormat
    /\ extent = << 0, 0 >>
    /\ scPc = "ctor_create"
    /\ scHist = NoHist

\* The window is resized: the framebuffer size changes, and with it the
\* currentExtent of a surface that reports one.
ScResize(fb) ==
    /\ scPc # "failed"
    /\ fb \in FramebufferSizes
    /\ fb # surface.framebuffer
    /\ IF surface.currentExtent[1] = SizeUndefined
          THEN surface' = [surface EXCEPT !.framebuffer = fb]
          ELSE /\ fb \in CurrentExtents(fb)
               /\ surface' = [surface EXCEPT !.framebuffer = fb,
                                             !.currentExtent = fb]
    /\ scHist' = [scHist EXCEPT !.quiet = 0, !.dirty = TRUE]
    /\ UNCHANGED << swapchain, images, imageViews, surfaceFormat, extent, scPc >>
    /\ UNCHANGED besidesSwapchain

\* The surface changes otherwise (another display, another driver state).
ScSurfaceChange(d, x) ==
    /\ scPc # "failed"
    /\ d \in Displays /\ x \in 0 .. 1
    /\ << d.formats, x >> # << surface.formats, surface.driverExtra >>
    /\ surface' = [surface EXCEPT !.formats = d.formats,
                                  !.presentModes = d.presentModes,
                                  !.driverExtra = x]
    /\ scHist' = [scHist EXCEPT !.quiet = 0, !.dirty = TRUE]
    /\ UNCHANGED << swapchain, images, imageViews, surfaceFormat, extent, scPc >>
    /\ UNCHANGED besidesSwapchain

\* VulkanSwapchain::createSwapchain, called by the constructor or recreate().
ScCreateSwapchain ==
    /\ scPc \in {"ctor_create", "rc_create"}
    /\ extent' = chooseExtent(surface)
    /\ surfaceFormat' = chooseSurfaceFormat(surface.formats)
    /\ swapchain' = [SwapchainCreateInfo EXCEPT !.minImageCount = @]
                        @@ [gen |-> NextGen(scHist.gen)]
    /\ images' = DriverImages(NextGen(scHist.gen), SwapchainCreateInfo)
    /\ scHist' = [scHist EXCEPT !.gen = NextGen(@)]
    /\ scPc' = IF scPc = "ctor_create" THEN "ctor_views" ELSE "rc_views"
    /\ UNCHANGED << surface, imageViews >>
    /\ UNCHANGED besidesSwapchain

\* The vk::raii::SwapchainKHR constructor throws (surface lost, out of
\* memory): extent and surfaceFormat are already assigned, the exception
\* leaves the constructor or recreate().
ScCreateFails ==
    /\ scPc \in {"ctor_create", "rc_create"}
    /\ extent' = chooseExtent(surface)
    /\ surfaceFormat' = chooseSurfaceFormat(surface.formats)
    /\ scPc' = "failed"
    /\ UNCHANGED << surface, swapchain, images, imageViews, scHist >>
    /\ UNCHANGED besidesSwapchain

\* One view per image, in order (lines 45-48).
ViewsOf(imgs) == [k \in 1 .. Len(imgs) |->
                     [image |-> imgs[k], format |-> surfaceFormat.format]]

\* VulkanSwapchain::createImageViews.  assert(imageViews.empty()) aborts a
\* build with assertions; a build without them appends to the list.  The
\* constructor or recreate() then returns.
ScCreateImageViews(assertsOn) ==
    /\ scPc \in {"ctor_views", "rc_views"}
    /\ IF assertsOn /\ imageViews # << >>
          THEN /\ scPc' = "aborted"
               /\ UNCHANGED << imageViews, scHist >>
          ELSE /\ imageViews' = imageViews \o ViewsOf(images)
               /\ scPc' = "ready"
               /\ scHist' =
                    [scHist EXCEPT
                       !.same = (scHist.last =
                                   [imageCount |-> Len(images),
                                    viewCount |-> Len(imageViews'),
                                    extent |-> extent, format |-> surfaceFormat]),
                       !.prevCount = scHist.last.imageCount,
                       !.last = [imageCount |-> Len(images),
                                 viewCount |-> Len(imageViews'),
                                 extent |-> extent, format |-> surfaceFormat],
                       !.quiet = IF scPc = "ctor_views" \/ scHist.dirty
                                    THEN 0
                                    ELSE IF @ < 2 THEN @ + 1 ELSE 2,
                       !.dirty = FALSE]
    /\ UNCHANGED << surface, swapchain, images, surfaceFormat, extent >>
    /\ UNCHANGED besidesSwapchain

\* Mutant: cleanup() forgets to clear the views.
ScRecreateCleanup_KeepViews ==
    /\ scPc = "ready"
    /\ imageViews' = imageViews
    /\ swapchain' = NullHandle
    /\ scHist' = [scHist EXCEPT !.dirty = FALSE]
    /\ scPc' = "rc_create"
    /\ UNCHANGED << surface, images, surfaceFormat, extent >>
    /\ UNCHANGED besidesSwapchain

\* VulkanSwapchain::recreate is called: waitIdle, then cleanup() clears the
\* views and drops the chain (the images vector keeps its stale handles).
ScRecreateCleanup ==
    /\ scPc = "ready"
    /\ imageViews' = << >>
    /\ swapchain' = NullHandle
    /\ scHist' = [scHist EXCEPT !.dirty = FALSE]
    /\ scPc' = "rc_create"
    /\ UNCHANGED << surface, images, surfaceFormat, extent >>
    /\ UNCHANGED besidesSwapchain

SwapchainNext ==
    \/ \E fb \in FramebufferSizes : ScResize(fb)
    \/ \E d \in Displays, x \in 0 .. 1 : ScSurfaceChange(d, x)
    \/ ScCreateSwapchain
    \/ ScCreateFails
    \/ \E assertsOn \in BOOLEAN : ScCreateImageViews(assertsOn)
    \/ ScRecreateCleanup

\* A VulkanSwapchain on its own; the rest of the program stays parked.
SwapchainInit == RendererParked /\ OnlySwapchain /\ SwapchainStart

SwapchainSpec == SwapchainInit /\ [][SwapchainNext]_vars

\* C11: when the constructor or recreate() has returned, there is one view
\* per image, view k is a view of image k, the images are those of the
\* current chain, and extent and format are the ones that chain was created
\* with; createImageViews is never entered with views left in the list.
C11_ViewsMatchImages ==
    /\ scPc = "ready" =>
          /\ Len(imageViews) = Len(images)
          /\ \A k \in 1 .. Len(images) :
                /\ imageViews[k].image = images[k]
                /\ imageViews[k].format = swapchain.imageFormat
                /\ images[k] = << swapchain.gen, k >>
          /\ Len(images) >= swapchain.minImageCount
          /\ extent = swapchain.imageExtent
          /\ surfaceFormat.format = swapchain.imageFormat
          /\ surfaceFormat.colorSpace = swapchain.imageColorSpace
    /\ scPc \in {"ctor_views", "rc_views"} => imageViews = << >>

\* recreate() has returned with another image count than the chain before.
C11_Witness ==
    /\ scPc = "ready"
    /\ scHist.prevCount > 0
    /\ scHist.prevCount # Len(images)
    /\ Len(imageViews) = Len(images)

\* C12: when recreate() has returned twice in a row with nothing of the
\* surface or the window changed since the first call began, the observable
\* swapchain state is the one the first call left.
C12_RecreateIdempotent ==
    (scPc = "ready" /\ scHist.quiet = 2) =>
        /\ Observable = scHist.last
        /\ scHist.same

\* Two recreations in a row of a chain whose extent was chosen by clamping
\* the framebuffer size and that got more images than it asked for.
C12_Witness ==
    /\ scPc = "ready"
    /\ scHist.quiet = 2
    /\ surface.currentExtent[1] = SizeUndefined
    /\ surface.framebuffer[1] > MaxDim
    /\ Len(images) > swapchain.minImageCount

\* ============================================================ VulkanImage
\* Commands one command buffer holds at most.
MaxCommands == 3

\* vk::ImageLayout values.
Layouts == {"Undefined", "General", "ColorAttachmentOptimal",
            "DepthStencilAttachmentOptimal", "TransferSrcOptimal",
            "TransferDstOptimal", "ShaderReadOnlyOptimal", "PresentSrcKHR"}

\* Mutant: an unsupported pair falls through to the barrier.
transitionLayout_FallsThrough(oldLayout, newLayout) ==
    IF oldLayout = "Undefined" /\ newLayout = "TransferDstOptimal"
        THEN [throws |-> FALSE,
              barrier |-> [cmd |-> "pipelineBarrier",
                           oldLayout |-> oldLayout, newLayout |-> newLayout,
                           srcAccessMask |-> "None",
                           dstAccessMask |-> "TransferWrite",
                           sourceStage |-> "TopOfPipe",
                           destinationStage |-> "Transfer"]]
    ELSE [throws |-> FALSE,
          barrier |-> [cmd |-> "pipelineBarrier",
                       oldLayout |-> oldLayout, newLayout |-> newLayout,
                       srcAccessMask |-> "TransferWrite",
                       dstAccessMask |-> "ShaderRead",
                       sourceStage |-> "Transfer",
                       destinationStage |-> "FragmentShader"]]

\* VulkanImage::transitionLayout: the barrier it records, or the throw.
transitionLayout(oldLayout, newLayout) ==
    IF oldLayout = "Undefined" /\ newLayout = "TransferDstOptimal"
        THEN [throws |-> FALSE,
              barrier |-> [cmd |-> "pipelineBarrier",
                           oldLayout |-> oldLayout, newLayout |-> newLayout,
                           srcAccessMask |-> "None",
                           dstAccessMask |-> "TransferWrite",
                           sourceStage |-> "TopOfPipe",
                           destinationStage |-> "Transfer"]]
    ELSE IF oldLayout = "TransferDstOptimal" /\ newLayout = "ShaderReadOnlyOptimal"
        THEN [throws |-> FALSE,
              barrier |-> [cmd |-> "pipelineBarrier",
                           oldLayout |-> oldLayout, newLayout |-> newLayout,
                           srcAccessMask |-> "TransferWrite",
                           dstAccessMask |-> "ShaderRead",
                           sourceStage |-> "Transfer",
                           destinationStage |-> "FragmentShader"]]
    ELSE [throws |-> TRUE, barrier |-> NullHandle]

\* An image exists; the caller holds an empty command buffer.
ImageStart ==
    /\ cmdBuffer = << >>
    /\ imCall = NoCall

\* image.transitionLayout(cmdBuffer, oldLayout, newLayout)
ImTransitionLayout(oldLayout, newLayout) ==
    /\ Len(cmdBuffer) < MaxCommands
    /\ cmdBuffer' = IF transitionLayout(oldLayout, newLayout).throws
                        THEN cmdBuffer
                        ELSE Append(cmdBuffer,
                                    transitionLayout(oldLayout, newLayout).barrier)
    /\ imCall' = [op |-> "transitionLayout",
                  outcome |-> IF transitionLayout(oldLayout, newLayout).throws
                                 THEN "invalid_argument" ELSE "ok",
                  oldLayout |-> oldLayout, newLayout |-> newLayout,
                  before |-> cmdBuffer]
    /\ UNCHANGED besidesImage

\* image.copyFromBuffer(cmdBuffer, buffer)
ImCopyFromBuffer ==
    /\ Len(cmdBuffer) < MaxCommands
    /\ cmdBuffer' = Append(cmdBuffer,
                           [cmd |-> "copyBufferToImage",
                            dstImageLayout |-> "TransferDstOptimal"])
    /\ imCall' = [op |-> "copyFromBuffer", outcome |-> "ok"]
    /\ UNCHANGED besidesImage

\* The caller ends the command buffer and begins a new one
\* (CommandManager::beginSingleTimeCommands).
ImNewCommandBuffer ==
    /\ cmdBuffer # << >>
    /\ cmdBuffer' = << >>
    /\ imCall' = NoCall
    /\ UNCHANGED besidesImage

ImageNext ==
    \/ \E oldLayout \in Layouts, newLayout \in Layouts :
          ImTransitionLayout(oldLayout, newLayout)
    \/ ImCopyFromBuffer
    \/ ImNewCommandBuffer

\* A VulkanImage on its own.
ImageInit == RendererParked /\ OnlyImage /\ ImageStart

ImageSpec == ImageInit /\ [][ImageNext]_vars

\* C15: transitionLayout records exactly one pipeline barrier, with the
\* layouts asked for, for undefined -> transfer-destination and for
\* transfer-destination -> shader-read-only; for every other pair it fails
\* and leaves the command buffer as it was.
C15_OnlyTwoTransitions ==
    imCall.op = "transitionLayout" =>
        IF << imCall.oldLayout, imCall.newLayout >> \in
              { << "Undefined", "TransferDstOptimal" >>,
                << "TransferDstOptimal", "ShaderReadOnlyOptimal" >> }
            THEN /\ imCall.outcome = "ok"
                 /\ Len(cmdBuffer) = Len(imCall.before) + 1
                 /\ SubSeq(cmdBuffer, 1, Len(imCall.before)) = imCall.before
                 /\ cmdBuffer[Len(cmdBuffer)].cmd = "pipelineBarrier"
                 /\ cmdBuffer[Len(cmdBuffer)].oldLayout = imCall.oldLayout
                 /\ cmdBuffer[Len(cmdBuffer)].newLayout = imCall.newLayout
            ELSE /\ imCall.outcome = "invalid_argument"
                 /\ cmdBuffer = imCall.before

\* The reverse of a supported pair was refused on a command buffer that
\* already held the upload's first barrier and copy.
C15_Witness ==
    /\ imCall.op = "transitionLayout"
    /\ imCall.oldLayout = "ShaderReadOnlyOptimal"
    /\ imCall.newLayout = "TransferDstOptimal"
    /\ imCall.outcome = "invalid_argument"
    /\ Len(cmdBuffer) = 2
    /\ cmdBuffer[2].cmd = "copyBufferToImage"

\* ============================================================== OBJLoader
\* Index entries of the faces of one file.
MaxIndices == 3

\* The float that is not a number (it compares unequal to every float,
\* itself included); the other floats are written as integers.
NaN == 0 - 1

\* operator== of float.
FloatEq(a, b) == a # NaN /\ b # NaN /\ a = b
\* 1.0f - t
FlipY(t) == IF t = NaN THEN NaN ELSE 1 - t

\* attrib.vertices (x y z of position 0, 1, ...) and attrib.texcoords (u v of
\* coordinate 0, 1, ...) of the parsed file: positions 1 and 2 are equal,
\* position 3 has a component that is not a number; coordinates 1 and 2 are
\* equal.
AttribVertices == << 0, 0, 0,   1, 0, 0,   1, 0, 0,   NaN, 0, 0 >>
AttribTexcoords == << 0, 0,   0, 1,   0, 1 >>

\* tinyobj::index_t values that refer into the two arrays (texcoord_index is
\* negative when the face gives none).
IndexEntries ==
    [vertex_index : 0 .. ((Len(AttribVertices) \div 3) - 1),
     texcoord_index : (0 - 1) .. ((Len(AttribTexcoords) \div 2) - 1)]

RECURSIVE SeqsUpTo(_, _)
\* All sequences over S of length at most n.
SeqsUpTo(S, n) ==
    IF n = 0 THEN { << >> }
    ELSE LET shorter == SeqsUpTo(S, n - 1)
         IN  shorter \cup { Append(q, x) : q \in { r \in shorter : Len(r) = n - 1 },
                                           x \in S }

\* Lines 29-49: the Vertex built for one index entry.
MakeVertex(index) ==
    [pos |-> << AttribVertices[3 * index.vertex_index + 1],
                AttribVertices[3 * index.vertex_index + 2],
                AttribVertices[3 * index.vertex_index + 3] >>,
     texCoord |-> IF index.texcoord_index >= 0
                     THEN << AttribTexcoords[2 * index.texcoord_index + 1],
                             FlipY(AttribTexcoords[2 * index.texcoord_index + 2]) >>
                     ELSE << 0, 0 >>,
     color |-> << 1, 1, 1 >>]

\* Vertex::operator== (glm compares vectors component by component).
VertexEq(a, b) ==
    /\ \A c \in 1 .. 3 : FloatEq(a.pos[c], b.pos[c])
    /\ \A c \in 1 .. 3 : FloatEq(a.color[c], b.color[c])
    /\ \A c \in 1 .. 2 : FloatEq(a.texCoord[c], b.texCoord[c])

\* Nodes of the map whose key compares equal to vertex (std::hash<Vertex>
\* gives equal keys equal hashes, so the search is decided by operator==).
MapFind(map, vertex) == { n \in 1 .. Len(map) : VertexEq(map[n].key, vertex) }
\* uniqueVertices.contains(vertex)
MapContains(map, vertex) == MapFind(map, vertex) # { }
\* uniqueVertices[vertex]: the node found, else a new node holding 0.
MapSubscript(map, vertex) ==
    IF MapContains(map, vertex)
        THEN [map |-> map,
              value |-> map[CHOOSE n \in MapFind(map, vertex) : TRUE].value]
        ELSE [map |-> Append(map, [key |-> vertex, value |-> 0]), value |-> 0]
\* uniqueVertices[vertex] = value
MapAssign(map, vertex, value) ==
    IF MapContains(map, vertex)
        THEN [n \in 1 .. Len(map) |->
                 IF n \in MapFind(map, vertex)
                     THEN [map[n] EXCEPT !.value = value] ELSE map[n]]
        ELSE Append(map, [key |-> vertex, value |-> value])

\* load() is called with the parsed entries and whatever the output vectors
\* held before.
LoaderStart ==
    /\ shapeIndices \in SeqsUpTo(IndexEntries, MaxIndices)
    /\ vertices \in { << >>, << MakeVertex([vertex_index |-> 0, texcoord_index |-> 0]) >> }
    /\ indices = [k \in 1 .. Len(vertices) |-> 0]
    /\ uniqueVertices = << >>
    /\ ldNext = 0
    /\ ldPc = "parse"

\* tinyobj::LoadObj fails: load() throws before touching the outputs.
LdParseFails ==
    /\ ldPc = "parse"
    /\ ldPc' = "failed"
    /\ UNCHANGED << shapeIndices, vertices, indices, uniqueVertices, ldNext >>
    /\ UNCHANGED besidesLoader

\* Lines 19-24: the outputs are cleared, the map starts empty.
LdClear ==
    /\ ldPc = "parse"
    /\ vertices' = << >>
    /\ indices' = << >>
    /\ uniqueVertices' = << >>
    /\ ldPc' = "loop"
    /\ UNCHANGED << shapeIndices, ldNext >>
    /\ UNCHANGED besidesLoader

\* One iteration of the loops of lines 27-58.
LdStep ==
    /\ ldPc = "loop"
    /\ ldNext < Len(shapeIndices)
    /\ LET vertex == MakeVertex(shapeIndices[ldNext + 1])
           isNew == ~MapContains(uniqueVertices, vertex)
           inserted == IF isNew
                          THEN MapAssign(uniqueVertices, vertex, Len(vertices))
                          ELSE uniqueVertices
           looked == MapSubscript(inserted, vertex)
       IN  /\ vertices' = IF isNew THEN Append(vertices, vertex) ELSE vertices
           /\ uniqueVertices' = looked.map
           /\ indices' = Append(indices, looked.value)
    /\ ldNext' = ldNext + 1
    /\ UNCHANGED << shapeIndices, ldPc >>
    /\ UNCHANGED besidesLoader

\* The loops are over; load() returns.
LdReturn ==
    /\ ldPc = "loop"
    /\ ldNext = Len(shapeIndices)
    /\ ldPc' = "done"
    /\ UNCHANGED << shapeIndices, vertices, indices, uniqueVertices, ldNext >>
    /\ UNCHANGED besidesLoader

LoaderNext ==
    \/ LdParseFails
    \/ LdClear
    \/ LdStep
    \/ LdReturn

\* OBJLoader::load on its own.
LoaderInit == RendererParked /\ OnlyLoader /\ LoaderStart

LoaderSpec == LoaderInit /\ [][LoaderNext]_vars

\* The vertices load() was given, in order.
InputVertices == [k \in 1 .. Len(shapeIndices) |-> MakeVertex(shapeIndices[k])]

RECURSIVE FirstOccurrences(_)
\* Reference compaction: each distinct element once, in order of first
\* occurrence.
FirstOccurrences(seq) ==
    IF seq = << >> THEN << >>
    ELSE LET front == FirstOccurrences(SubSeq(seq, 1, Len(seq) - 1))
             last == seq[Len(seq)]
         IN  IF \E k \in 1 .. Len(front) : front[k] = last
                 THEN front ELSE Append(front, last)

\* C16 (as claimed): when load() has returned, every index is smaller than
\* the vertex count, vertices[indices[k]] is the k-th input vertex, and the
\* vertex list is the first-occurrence compaction of the input: each
\* distinct vertex once, in order of first occurrence.
C16_DedupeIsCompaction ==
    ldPc = "done" =>
        /\ Len(indices) = Len(InputVertices)
        /\ \A k \in 1 .. Len(indices) :
              /\ indices[k] < Len(vertices)
              /\ vertices[indices[k] + 1] = InputVertices[k]
        /\ vertices = FirstOccurrences(InputVertices)

\* =========================================================== VulkanBuffer
\* Cells of the buffer (its size) and values a cell may take.
BufferSize == 2
MaxByte == 1

\* Value of a cell nothing has been written to.
Unwritten == 0 - 1
\* What memory.mapMemory(0, size) returns.
MappedAddress == "mapped"

\* Source data of a copy: copySize cells.
CopySources == UNION { [1 .. n -> 0 .. MaxByte] : n \in 0 .. BufferSize }

\* memcpy(mappedData, data, copySize)
Memcpy(mem, data) ==
    [c \in 1 .. Len(mem) |-> IF c <= Len(data) THEN data[c] ELSE mem[c]]

\* VulkanBuffer::VulkanBuffer: memory allocated and bound, nothing mapped.
BufferStart ==
    /\ mappedData = NullHandle
    /\ memory = [c \in 1 .. BufferSize |-> Unwritten]
    /\ bufCall = NoCall
    /\ bufMapped = "none"

\* VulkanBuffer::map; mapMemory may throw, which leaves mappedData null.
BufMap(mapFails) ==
    /\ IF mappedData = NullHandle
          THEN IF mapFails
                  THEN /\ bufCall' = [op |-> "map", outcome |-> "map_failed",
                                      mappedBefore |-> bufMapped = "map"]
                       /\ UNCHANGED << mappedData, bufMapped >>
                  ELSE /\ mappedData' = MappedAddress
                       /\ bufMapped' = "map"
                       /\ bufCall' = [op |-> "map", outcome |-> "ok",
                                      mappedBefore |-> bufMapped = "map"]
          ELSE /\ bufCall' = [op |-> "map", outcome |-> "ok",
                              mappedBefore |-> bufMapped = "map"]
               /\ bufMapped' = "map"
               /\ UNCHANGED mappedData
    /\ UNCHANGED memory
    /\ UNCHANGED besidesBuffer

\* Mutant: unmap() leaves the stale address in mappedData.
BufUnmap_KeepsPointer ==
    /\ mappedData' = mappedData
    /\ bufMapped' = "unmap"
    /\ bufCall' = [op |-> "unmap", outcome |-> "ok",
                   mappedBefore |-> bufMapped = "map"]
    /\ UNCHANGED memory
    /\ UNCHANGED besidesBuffer

\* VulkanBuffer::unmap
BufUnmap ==
    /\ mappedData' = IF mappedData # NullHandle THEN NullHandle ELSE mappedData
    /\ bufMapped' = "unmap"
    /\ bufCall' = [op |-> "unmap", outcome |-> "ok",
                   mappedBefore |-> bufMapped = "map"]
    /\ UNCHANGED memory
    /\ UNCHANGED besidesBuffer

\* VulkanBuffer::copyData(data, copySize)
BufCopyData(data) ==
    /\ data \in CopySources
    /\ IF mappedData = NullHandle
          THEN /\ bufCall' = [op |-> "copyData", outcome |-> "not_mapped",
                              mappedBefore |-> bufMapped = "map",
                              data |-> data, memoryBefore |-> memory]
               /\ UNCHANGED memory
          ELSE /\ memory' = Memcpy(memory, data)
               /\ bufCall' = [op |-> "copyData", outcome |-> "ok",
                              mappedBefore |-> bufMapped = "map",
                              data |-> data, memoryBefore |-> memory]
    /\ UNCHANGED << mappedData, bufMapped >>
    /\ UNCHANGED besidesBuffer

BufferNext ==
    \/ \E mapFails \in BOOLEAN : BufMap(mapFails)
    \/ BufUnmap
    \/ \E data \in CopySources : BufCopyData(data)

\* A VulkanBuffer on its own.
BufferInit == RendererParked /\ OnlyBuffer /\ BufferStart

BufferSpec == BufferInit /\ [][BufferNext]_vars

\* C17: copyData succeeds, writing the data to the start of the memory,
\* exactly when the last of map() / unmap() to return was map(); otherwise
\* it fails with the not-mapped error and the memory is as before.
C17_CopyNeedsMapping ==
    bufCall.op = "copyData" =>
        IF bufCall.mappedBefore
            THEN /\ bufCall.outcome = "ok"
                 /\ \A c \in 1 .. BufferSize :
                       memory[c] = IF c <= Len(bufCall.data)
                                      THEN bufCall.data[c]
                                      ELSE bufCall.memoryBefore[c]
            ELSE /\ bufCall.outcome = "not_mapped"
                 /\ memory = bufCall.memoryBefore

\* copyData was refused after map(), a successful copy and unmap(): the
\* memory still holds what the earlier copy wrote.
C17_Witness ==
    /\ bufCall.op = "copyData"
    /\ bufCall.outcome = "not_mapped"
    /\ bufMapped = "unmap"
    /\ Len(bufCall.data) = BufferSize
    /\ memory[1] # Unwritten
    /\ memory # bufCall.data

\* C18 (as claimed): map() on a buffer that is already mapped raises an
\* error instead of returning normally.
C18_DoubleMapIsFatal ==
    (bufCall.op = "map" /\ bufCall.mappedBefore) => bufCall.outcome # "ok"

\* =================================================================== Mesh
\* Longest vertex list and index list a mesh is given.
MaxMeshData == 2

\* Vertex lists and index lists a caller or the OBJ loader may supply.
VertexLists == SeqsUpTo({"vertex"}, MaxMeshData)
IndexLists == SeqsUpTo({0}, MaxMeshData)

\* Mutant: only the vertex list is tested.
hasData_VerticesOnly == meshVertices # << >>

\* Mesh::hasData
hasData == meshVertices # << >> /\ meshIndices # << >>

\* The device-local buffers createBuffers() makes for the data (lines 48,
\* 70): each holds a copy of one list.
VertexBufferOf(vs) == [usage |-> "VertexBuffer", elements |-> Len(vs)]
IndexBufferOf(is) == [usage |-> "IndexBuffer", elements |-> Len(is)]

\* Mesh::Mesh without data, or with data (buffers only if hasData()).
MeshStart ==
    /\ meshVertices \in VertexLists
    /\ meshIndices \in IndexLists
    /\ vertexBuffer = IF hasData THEN VertexBufferOf(meshVertices) ELSE NoBuffer
    /\ indexBuffer = IF hasData THEN IndexBufferOf(meshIndices) ELSE NoBuffer
    /\ commandBuffer = << >>
    /\ meshCall = NoCall

\* Mesh::setData, or Mesh::loadFromOBJ once OBJLoader::load has filled the
\* lists: the lists are replaced, then createBuffers() throws for an empty
\* list, or a device allocation fails (fatal), or both buffers are replaced.
MsSetData(vs, is, deviceFails) ==
    /\ meshCall.outcome # "device_error"
    /\ vs \in VertexLists /\ is \in IndexLists
    /\ meshVertices' = vs
    /\ meshIndices' = is
    /\ IF vs = << >> \/ is = << >>
          THEN /\ meshCall' = [op |-> "setData", outcome |-> "empty_mesh"]
               /\ UNCHANGED << vertexBuffer, indexBuffer >>
          ELSE IF deviceFails
          THEN /\ meshCall' = [op |-> "setData", outcome |-> "device_error"]
               /\ UNCHANGED << vertexBuffer, indexBuffer >>
          ELSE /\ meshCall' = [op |-> "setData", outcome |-> "ok"]
               /\ vertexBuffer' = VertexBufferOf(vs)
               /\ indexBuffer' = IndexBufferOf(is)
    /\ UNCHANGED commandBuffer
    /\ UNCHANGED besidesMesh

\* Mesh::bind
MsBind ==
    /\ meshCall.outcome # "device_error"
    /\ Len(commandBuffer) + 2 <= MaxCommands
    /\ IF ~hasData
          THEN /\ meshCall' = [op |-> "bind", outcome |-> "empty_mesh",
                               before |-> commandBuffer]
               /\ UNCHANGED commandBuffer
          ELSE /\ commandBuffer' = commandBuffer \o
                    << [cmd |-> "bindVertexBuffers", firstBinding |-> 0,
                        buffer |-> vertexBuffer, offset |-> 0],
                       [cmd |-> "bindIndexBuffer", buffer |-> indexBuffer,
                        offset |-> 0, indexType |-> "Uint32"] >>
               /\ meshCall' = [op |-> "bind", outcome |-> "ok",
                               before |-> commandBuffer]
    /\ UNCHANGED << meshVertices, meshIndices, vertexBuffer, indexBuffer >>
    /\ UNCHANGED besidesMesh

\* Mesh::draw
MsDraw ==
    /\ meshCall.outcome # "device_error"
    /\ Len(commandBuffer) + 1 <= MaxCommands
    /\ IF ~hasData
          THEN /\ meshCall' = [op |-> "draw", outcome |-> "empty_mesh",
                               before |-> commandBuffer]
               /\ UNCHANGED commandBuffer
          ELSE /\ commandBuffer' = Append(commandBuffer,
                    [cmd |-> "drawIndexed", indexCount |-> Len(meshIndices),
                     instanceCount |-> 1, firstIndex |-> 0,
                     vertexOffset |-> 0, firstInstance |-> 0])
               /\ meshCall' = [op |-> "draw", outcome |-> "ok",
                               before |-> commandBuffer]
    /\ UNCHANGED << meshVertices, meshIndices, vertexBuffer, indexBuffer >>
    /\ UNCHANGED besidesMesh

\* The caller moves on to another command buffer (the next frame's).
MsNewCommandBuffer ==
    /\ meshCall.outcome # "device_error"
    /\ commandBuffer # << >>
    /\ commandBuffer' = << >>
    /\ meshCall' = NoCall
    /\ UNCHANGED << meshVertices, meshIndices, vertexBuffer, indexBuffer >>
    /\ UNCHANGED besidesMesh

MeshNext ==
    \/ \E vs \in VertexLists, is \in IndexLists, deviceFails \in BOOLEAN :
          MsSetData(vs, is, deviceFails)
    \/ MsBind
    \/ MsDraw
    \/ MsNewCommandBuffer

\* A Mesh on its own.
MeshInit == RendererParked /\ OnlyMesh /\ MeshStart

MeshSpec == MeshInit /\ [][MeshNext]_vars

\* C19: bind and draw on a mesh whose vertex list or index list is empty
\* fail and leave the command buffer as it was; on a mesh with data, bind
\* records the bind of the vertex buffer and of the index buffer (both
\* holding the current data), and draw records one indexed draw of all
\* indices with one instance.
C19_EmptyMeshRefused ==
    /\ meshCall.op \in {"bind", "draw"} =>
          IF meshVertices = << >> \/ meshIndices = << >>
              THEN /\ meshCall.outcome = "empty_mesh"
                   /\ commandBuffer = meshCall.before
              ELSE meshCall.outcome = "ok"
    /\ (meshCall.op = "bind" /\ meshCall.outcome = "ok") =>
          /\ Len(commandBuffer) = Len(meshCall.before) + 2
          /\ SubSeq(commandBuffer, 1, Len(meshCall.before)) = meshCall.before
          /\ commandBuffer[Len(commandBuffer) - 1] =
                [cmd |-> "bindVertexBuffers", firstBinding |-> 0,
                 buffer |-> [usage |-> "VertexBuffer",
                             elements |-> Len(meshVertices)],
                 offset |-> 0]
          /\ commandBuffer[Len(commandBuffer)] =
                [cmd |-> "bindIndexBuffer",
                 buffer |-> [usage |-> "IndexBuffer",
                             elements |-> Len(meshIndices)],
                 offset |-> 0, indexType |-> "Uint32"]
    /\ (meshCall.op = "draw" /\ meshCall.outcome = "ok") =>
          /\ Len(commandBuffer) = Len(meshCall.before) + 1
          /\ SubSeq(commandBuffer, 1, Len(meshCall.before)) = meshCall.before
          /\ commandBuffer[Len(commandBuffer)] =
                [cmd |-> "drawIndexed", indexCount |-> Len(meshIndices),
                 instanceCount |-> 1, firstIndex |-> 0, vertexOffset |-> 0,
                 firstInstance |-> 0]

\* draw was refused on a mesh that has vertices but no indices and still
\* owns the buffers of earlier data, whose binds are in the command buffer.
C19_Witness ==
    /\ meshCall.op = "draw"
    /\ meshCall.outcome = "empty_mesh"
    /\ meshVertices # << >>
    /\ meshIndices = << >>
    /\ vertexBuffer # NoBuffer
    /\ Len(commandBuffer) = 2

\* ========================================= VulkanSwapchain::chooseImageCount
\* Largest minImageCount / maxImageCount a surface reports.
MaxCapability == 8

\* The image-count limits of vk::SurfaceCapabilitiesKHR, any two uint32.
CountCapabilities ==
    [minImageCount : 0 .. MaxCapability, maxImageCount : 0 .. MaxCapability]

\* createSwapchain queries the surface capabilities (line 13).
CountStart ==
    /\ surfaceCaps \in CountCapabilities
    /\ chosenCount = NotChosen

\* createInfo.minImageCount = chooseImageCount(surfaceCapabilities)
CcChoose ==
    /\ chosenCount = NotChosen
    /\ chosenCount' = chooseImageCount(surfaceCaps)
    /\ UNCHANGED surfaceCaps
    /\ UNCHANGED besidesCount

\* recreate(): createSwapchain queries the capabilities again.
CcQuery(c) ==
    /\ chosenCount # NotChosen
    /\ c \in CountCapabilities
    /\ surfaceCaps' = c
    /\ chosenCount' = NotChosen
    /\ UNCHANGED besidesCount

CountNext ==
    \/ CcChoose
    \/ \E c \in CountCapabilities : CcQuery(c)

\* chooseImageCount on its own.
CountInit == RendererParked /\ OnlyCount /\ CountStart

CountSpec == CountInit /\ [][CountNext]_vars

\* C24: chooseImageCount returns max(3, minImageCount), replaced by
\* maxImageCount when that is nonzero and smaller; when maxImageCount is 0
\* or at least minImageCount, the result is at least minImageCount and, for
\* a nonzero maxImageCount, at most maxImageCount.
C24_ImageCountWithinLimits ==
    chosenCount # NotChosen =>
        LET lo == surfaceCaps.minImageCount
            hi == surfaceCaps.maxImageCount
            wanted == IF lo > 3 THEN lo ELSE 3
        IN  /\ chosenCount = IF hi # 0 /\ hi < wanted THEN hi ELSE wanted
            /\ (hi = 0 \/ hi >= lo) =>
                  /\ chosenCount >= lo
                  /\ hi # 0 => chosenCount <= hi

\* A surface that allows exactly two images was given two, not three.
C24_Witness ==
    /\ surfaceCaps = [minImageCount |-> 2, maxImageCount |-> 2]
    /\ chosenCount = 2

\* ============================================= one-shot command buffers
\* Submissions of earlier work (frames) the graphics queue may still hold.
MaxOtherWork == 2
\* One-shot command buffers begun in one run.
MaxOneShots == 4

\* How many staging copies each caller makes: vertex and index data in
\* Mesh::createBuffers, the pixels in Renderer::loadTexture.
Rounds == [createBuffers |-> 2, loadTexture |-> 1]
OneShotCallers == DOMAIN Rounds

\* Who calls whom, for the functions on the paths into CommandManager.
Calls ==
    [ drawFrame |-> {"waitForFence", "acquireNextImage", "recreateSwapchain",
                     "updateUniformBuffer", "resetFence",
                     "recordCommandBuffer", "submit", "presentKHR"},
      recordCommandBuffer |-> {"getCommandBuffer", "transitionImageLayout",
                               "Mesh::bind", "Mesh::draw"},
      transitionImageLayout |-> {"getCommandBuffer"},
      recreateSwapchain |-> {"waitIdle", "VulkanSwapchain::recreate",
                             "createDepthResources"},
      handleFramebufferResize |-> {"recreateSwapchain"},
      loadModel |-> {"Mesh::loadFromOBJ"},
      loadTexture |-> {"beginSingleTimeCommands", "transitionLayout",
                       "copyFromBuffer", "endSingleTimeCommands",
                       "updateDescriptorSets"},
      createBuffers |-> {"beginSingleTimeCommands", "copyFrom",
                         "endSingleTimeCommands"} ]

RECURSIVE Reaches(_, _)
\* The functions reachable from those in fs by at most n nested calls.
Reaches(fs, n) ==
    IF n = 0 THEN fs
    ELSE Reaches(fs \cup UNION { Calls[f] : f \in fs \cap DOMAIN Calls }, n - 1)

\* Mutant: the queue is not waited for.
QueueIdle_NoWait == TRUE

\* graphicsQueue.waitIdle() returns once the queue has completed all work.
QueueIdle ==
    /\ otherWork = 0
    /\ \A k \in 1 .. Len(osCmds) : osCmds[k].state # "pending"

\* Scope exit, by return or by exception: the command buffer the local
\* unique_ptr holds and the staging buffers are destroyed.
DestroyLocals(cmds) ==
    [k \in 1 .. Len(cmds) |->
        IF k = Len(cmds) THEN [cmds[k] EXCEPT !.destroyed = TRUE] ELSE cmds[k]]
AllDestroyed(staging) == [k \in 1 .. Len(staging) |-> "destroyed"]

\* One of the two functions is entered.
OneShotStart ==
    /\ osCaller \in OneShotCallers
    /\ osPc = "stage"
    /\ osRound = 1
    /\ osStaging = << >>
    /\ osCmds = << >>
    /\ otherWork \in 0 .. MaxOtherWork

\* The staging buffer is created, mapped, filled and unmapped, and the
\* device-local buffer or image is created.
OsStage ==
    /\ osPc = "stage"
    /\ osStaging' = Append(osStaging, "alive")
    /\ osPc' = "begin"
    /\ UNCHANGED << osCaller, osRound, osCmds, otherWork >>
    /\ UNCHANGED besidesOneShot

\* commandBuffer = commandManager.beginSingleTimeCommands(): a new command
\* buffer in the recording state; assigning it to the unique_ptr destroys
\* the command buffer of the copy before.
OsBegin ==
    /\ osPc = "begin"
    /\ osCmds' = Append(DestroyLocals(osCmds),
                        [reads |-> 0, state |-> "recording", destroyed |-> FALSE])
    /\ osPc' = "record"
    /\ UNCHANGED << osCaller, osRound, osStaging, otherWork >>
    /\ UNCHANGED besidesOneShot

\* copyFrom / transitionLayout + copyFromBuffer + transitionLayout: the
\* recorded copy reads the staging buffer created last.
OsRecord ==
    /\ osPc = "record"
    /\ osCmds' = [osCmds EXCEPT ![Len(osCmds)].reads = Len(osStaging)]
    /\ osPc' = "end"
    /\ UNCHANGED << osCaller, osRound, osStaging, otherWork >>
    /\ UNCHANGED besidesOneShot

\* endSingleTimeCommands lines 55-62: end() and submit, with no fence and no
\* semaphore.
OsEndSubmit ==
    /\ osPc = "end"
    /\ osCmds' = [osCmds EXCEPT ![Len(osCmds)].state = "pending"]
    /\ osPc' = "wait"
    /\ UNCHANGED << osCaller, osRound, osStaging, otherWork >>
    /\ UNCHANGED besidesOneShot

\* endSingleTimeCommands line 63: waitIdle returns, and so does the call;
\* the caller goes on to its next copy or to its end.
OsWaitIdle ==
    /\ osPc = "wait"
    /\ QueueIdle
    /\ IF osRound < Rounds[osCaller]
          THEN osPc' = "stage" /\ osRound' = osRound + 1
          ELSE osPc' = "exit" /\ osRound' = osRound
    /\ UNCHANGED << osCaller, osStaging, osCmds, otherWork >>
    /\ UNCHANGED besidesOneShot

\* The next of the two functions is entered (loadModel, then loadTexture;
\* or setData again).
OsCall(caller) ==
    /\ osPc = "returned"
    /\ caller \in OneShotCallers
    /\ Len(osCmds) + Rounds[caller] <= MaxOneShots
    /\ osCaller' = caller
    /\ osPc' = "stage"
    /\ osRound' = 1
    /\ UNCHANGED << osStaging, osCmds, otherWork >>
    /\ UNCHANGED besidesOneShot

\* The function returns.
OsReturn ==
    /\ osPc = "exit"
    /\ osCmds' = DestroyLocals(osCmds)
    /\ osStaging' = AllDestroyed(osStaging)
    /\ osPc' = "returned"
    /\ UNCHANGED << osCaller, osRound, otherWork >>
    /\ UNCHANGED besidesOneShot

\* A Vulkan call made before the submission has gone through throws: the
\* stack unwinds.
OsThrow ==
    /\ osPc \in {"stage", "begin", "record", "end"}
    /\ osCmds' = DestroyLocals(osCmds)
    /\ osStaging' = AllDestroyed(osStaging)
    /\ osPc' = "thrown"
    /\ UNCHANGED << osCaller, osRound, otherWork >>
    /\ UNCHANGED besidesOneShot

\* The GPU completes the one-shot command buffer k.
OsGpuComplete(k) ==
    /\ k \in 1 .. Len(osCmds)
    /\ osCmds[k].state = "pending"
    /\ osCmds' = [osCmds EXCEPT ![k].state = "done"]
    /\ UNCHANGED << osCaller, osPc, osRound, osStaging, otherWork >>
    /\ UNCHANGED besidesOneShot

\* The GPU completes one of the other submissions.
OsGpuOther ==
    /\ otherWork > 0
    /\ otherWork' = otherWork - 1
    /\ UNCHANGED << osCaller, osPc, osRound, osStaging, osCmds >>
    /\ UNCHANGED besidesOneShot

OneShotNext ==
    \/ OsStage
    \/ OsBegin
    \/ OsRecord
    \/ OsEndSubmit
    \/ OsWaitIdle
    \/ \E caller \in OneShotCallers : OsCall(caller)
    \/ OsReturn
    \/ OsThrow
    \/ \E k \in 1 .. MaxOneShots : OsGpuComplete(k)
    \/ OsGpuOther

\* The one-shot copies on their own.
OneShotInit == RendererParked /\ OnlyOneShot /\ OneShotStart

OneShotSpec == OneShotInit /\ [][OneShotNext]_vars

\* C25: once endSingleTimeCommands has returned, the command buffer it
\* submitted has completed; no command buffer is destroyed, and no staging
\* buffer a command buffer reads, while that command buffer is pending on
\* the GPU; endSingleTimeCommands is not reachable from drawFrame.
C25_OneShotCompletes ==
    /\ (osPc \in {"stage", "begin", "exit", "returned"} /\ osCmds # << >>) =>
          osCmds[Len(osCmds)].state = "done"
    /\ \A k \in 1 .. Len(osCmds) :
          osCmds[k].state = "pending" =>
              /\ ~osCmds[k].destroyed
              /\ osStaging[osCmds[k].reads] = "alive"
    /\ \A k \in 1 .. Len(osCmds) :
          (osPc # "thrown" /\ osCmds[k].destroyed) => osCmds[k].state = "done"
    /\ "endSingleTimeCommands" \notin Reaches({"drawFrame"}, 3)
    /\ "endSingleTimeCommands" \in Reaches({"loadTexture"}, 1)

\* Mesh::createBuffers has returned: both staging buffers and both one-shot
\* command buffers are destroyed, after both copies.
C25_Witness ==
    /\ osCaller = "createBuffers"
    /\ osPc = "returned"
    /\ Len(osCmds) = 2
    /\ osCmds[1].destroyed /\ osCmds[2].destroyed
    /\ osStaging = << "destroyed", "destroyed" >>
    /\ osCmds[1].reads = 1 /\ osCmds[2].reads = 2

\* ==================================================== Renderer resources
\* Largest width and height of a swapchain extent.
MaxExtent == 2
\* Swapchain recreations in one run.
MaxRecreates == 2

\* Extents a created chain may have.
ChainExtents ==
    { e \in (1 .. MaxExtent) \X (1 .. MaxExtent) : e[1] >= e[2] }

\* A vector of n elements, each constructed as x.
VectorOf(n, x) == [k \in 1 .. n |-> x]

\* createImageViews: view k of chain generation gen is for image k.
RsImageViews(gen, n) == [k \in 1 .. n |-> [chain |-> gen, image |-> k - 1]]

\* Mutant: the depth image is kept.
createDepthResources_Keep(chain, depth) == depth

\* Renderer::createDepthResources: a new depth image of the chain's extent.
createDepthResources(chain, depth) ==
    [extent |-> chain.extent, id |-> depth.id + 1]

\* VulkanSwapchain::createFramebuffers
createFramebuffers(imageViews_, depthImageViews, renderPass_, extent_) ==
    [k \in 1 .. Len(imageViews_) |->
        [renderPass |-> renderPass_, color |-> imageViews_[k],
         depth |-> depthImageViews[k], extent |-> extent_]]

\* Mutant: the slot index is not wrapped.
NextFrame_NoWrap(f) == f + 1

\* Line 163: currentFrame = (currentFrame + 1) % MAX_FRAMES_IN_FLIGHT
NextFrame(f) == (f + 1) % MAX_FRAMES_IN_FLIGHT

\* Renderer::Renderer
ResourcesStart ==
    /\ rsLinux \in BOOLEAN
    /\ rsFrame = 0
    /\ \E n \in ImageCounts, e \in ChainExtents :
          rsChain = [gen |-> 0, imageCount |-> n, extent |-> e]
    /\ rsDepth = createDepthResources(rsChain, NoDepth)
    /\ rsRenderPass = IF rsLinux THEN "renderPass" ELSE NullHandle
    /\ rsFramebuffers =
          IF rsLinux
              THEN createFramebuffers(RsImageViews(0, rsChain.imageCount),
                                      VectorOf(rsChain.imageCount, rsDepth.id),
                                      rsRenderPass, rsChain.extent)
              ELSE << >>
    /\ rsMesh = NullHandle
    /\ rsTexture = FALSE
    /\ rsCommandBuffers = VectorOf(MAX_FRAMES_IN_FLIGHT, "initial")
    /\ rsUniformBuffers = VectorOf(MAX_FRAMES_IN_FLIGHT, "mapped")
    /\ rsDescriptorSets = VectorOf(MAX_FRAMES_IN_FLIGHT, NoSet)
    /\ rsSync = [imageAvailableSemaphores |->
                     VectorOf(MAX_FRAMES_IN_FLIGHT, "semaphore"),
                 inFlightFences |-> VectorOf(MAX_FRAMES_IN_FLIGHT, "fence"),
                 renderFinishedSemaphores |->
                     VectorOf(rsChain.imageCount, "semaphore")]
    /\ rsCall = RsNoCall

\* Renderer::recreateSwapchain once the window has a size: swapchain->
\* recreate() (cleanup, createSwapchain with n images of extent e,
\* createImageViews), then createDepthResources().
RsRecreateSwapchain(n, e) ==
    /\ rsChain.gen < MaxRecreates
    /\ n \in ImageCounts /\ e \in ChainExtents
    /\ rsChain' = [gen |-> rsChain.gen + 1, imageCount |-> n, extent |-> e]
    /\ rsDepth' = createDepthResources(rsChain', rsDepth)
    /\ rsRenderPass' = NullHandle
    /\ rsFramebuffers' = << >>

\* What recordCommandBuffer(imageIndex) reads while it records.
RsRecording(i) ==
    [recorded |-> TRUE,
     renderPass |-> rsRenderPass,
     framebufferCount |-> Len(rsFramebuffers),
     framebuffer |-> IF i + 1 \in DOMAIN rsFramebuffers
                         THEN rsFramebuffers[i + 1] ELSE NoFramebuffer,
     chain |-> rsChain,
     depth |-> rsDepth,
     drew |-> rsMesh = "data",
     set |-> IF rsMesh = "data" THEN rsDescriptorSets[rsFrame + 1] ELSE NoSet]

\* Undefined behaviour on the way from acquire to present: a null render
\* pass or a framebuffer index past the end (Linux build), a semaphore index
\* past the end.
RsUndefined(i) ==
    \/ rsLinux /\ (rsRenderPass = NullHandle \/ i + 1 \notin DOMAIN rsFramebuffers)
    \/ i + 1 \notin DOMAIN rsSync.renderFinishedSemaphores

Alive == rsCall.outcome \notin {"thrown", "crashed"}

\* Renderer::drawFrame with acquire status acq and image index i, present
\* status pres; n and e are the chain a recreation builds, dies whether
\* undefined behaviour ends the process.
RsDrawFrame(acq, i, pres, n, e, dies) ==
    /\ Alive
    /\ acq \in AcquireResults /\ pres \in PresentResults
    /\ IF acq = "OutOfDate"
          THEN /\ RsRecreateSwapchain(n, e)
               /\ rsCall' = [op |-> "drawFrame", outcome |-> "stale",
                             entryFrame |-> rsFrame, imageIndex |-> NoImage,
                             rec |-> NoRecording]
               /\ UNCHANGED << rsFrame, rsUniformBuffers, rsCommandBuffers >>
          ELSE IF acq = "Error"
          THEN /\ rsCall' = [op |-> "drawFrame", outcome |-> "thrown",
                             entryFrame |-> rsFrame, imageIndex |-> NoImage,
                             rec |-> NoRecording]
               /\ UNCHANGED << rsFrame, rsChain, rsDepth, rsRenderPass,
                               rsFramebuffers, rsUniformBuffers,
                               rsCommandBuffers >>
          ELSE /\ i \in 0 .. (rsChain.imageCount - 1)
               /\ dies => RsUndefined(i)
               /\ rsUniformBuffers' =
                     [rsUniformBuffers EXCEPT ![rsFrame + 1] = "written"]
               /\ rsCommandBuffers' =
                     [rsCommandBuffers EXCEPT ![rsFrame + 1] = "recorded"]
               /\ IF dies
                     THEN /\ rsCall' = [op |-> "drawFrame", outcome |-> "crashed",
                                        entryFrame |-> rsFrame, imageIndex |-> i,
                                        rec |-> RsRecording(i)]
                          /\ UNCHANGED << rsFrame, rsChain, rsDepth,
                                          rsRenderPass, rsFramebuffers >>
                     ELSE IF pres = "Error"
                     THEN /\ rsCall' = [op |-> "drawFrame", outcome |-> "thrown",
                                        entryFrame |-> rsFrame, imageIndex |-> i,
                                        rec |-> RsRecording(i)]
                          /\ UNCHANGED << rsFrame, rsChain, rsDepth,
                                          rsRenderPass, rsFramebuffers >>
                     ELSE IF PresentRecreates(pres)
                     THEN /\ RsRecreateSwapchain(n, e)
                          /\ rsFrame' = NextFrame(rsFrame)
                          /\ rsCall' = [op |-> "drawFrame",
                                        outcome |-> "presented_recreated",
                                        entryFrame |-> rsFrame, imageIndex |-> i,
                                        rec |-> RsRecording(i)]
                     ELSE /\ rsFrame' = NextFrame(rsFrame)
                          /\ rsCall' = [op |-> "drawFrame",
                                        outcome |-> "presented",
                                        entryFrame |-> rsFrame, imageIndex |-> i,
                                        rec |-> RsRecording(i)]
                          /\ UNCHANGED << rsChain, rsDepth, rsRenderPass,
                                          rsFramebuffers >>
    /\ UNCHANGED << rsLinux, rsMesh, rsTexture, rsDescriptorSets, rsSync >>
    /\ UNCHANGED besidesResources

\* Renderer::handleFramebufferResize
RsHandleFramebufferResize(n, e) ==
    /\ Alive
    /\ RsRecreateSwapchain(n, e)
    /\ rsCall' = [op |-> "handleFramebufferResize", outcome |-> "ok",
                  entryFrame |-> rsFrame, imageIndex |-> NoImage,
                  rec |-> NoRecording]
    /\ UNCHANGED << rsLinux, rsFrame, rsMesh, rsTexture, rsUniformBuffers,
                    rsDescriptorSets, rsCommandBuffers, rsSync >>
    /\ UNCHANGED besidesResources

\* Renderer::loadModel: a new Mesh, then loadFromOBJ, which throws when the
\* file cannot be parsed or holds no face and leaves the mesh empty.
RsLoadModel(loaded) ==
    /\ Alive
    /\ loaded \in BOOLEAN
    /\ rsMesh' = IF loaded THEN "data" ELSE "empty"
    /\ rsCall' = [op |-> "loadModel",
                  outcome |-> IF loaded THEN "ok" ELSE "load_error",
                  entryFrame |-> rsFrame, imageIndex |-> NoImage,
                  rec |-> NoRecording]
    /\ UNCHANGED << rsLinux, rsFrame, rsChain, rsDepth, rsRenderPass,
                    rsFramebuffers, rsTexture, rsUniformBuffers,
                    rsDescriptorSets, rsCommandBuffers, rsSync >>
    /\ UNCHANGED besidesResources

\* Renderer::updateDescriptorSets with a texture loaded: every set gets the
\* uniform buffer of its slot and the texture's view and sampler.
updateDescriptorSets ==
    [k \in 1 .. MAX_FRAMES_IN_FLIGHT |->
        [written |-> TRUE, buffer |-> k - 1, texture |-> TRUE]]

\* Renderer::loadTexture: throws when the file cannot be read, else sets
\* textureImage and updates the descriptor sets.
RsLoadTexture(loaded) ==
    /\ Alive
    /\ loaded \in BOOLEAN
    /\ IF loaded
          THEN /\ rsTexture' = TRUE
               /\ rsDescriptorSets' = updateDescriptorSets
          ELSE UNCHANGED << rsTexture, rsDescriptorSets >>
    /\ rsCall' = [op |-> "loadTexture",
                  outcome |-> IF loaded THEN "ok" ELSE "load_error",
                  entryFrame |-> rsFrame, imageIndex |-> NoImage,
                  rec |-> NoRecording]
    /\ UNCHANGED << rsLinux, rsFrame, rsChain, rsDepth, rsRenderPass,
                    rsFramebuffers, rsMesh, rsUniformBuffers,
                    rsCommandBuffers, rsSync >>
    /\ UNCHANGED besidesResources

\* The inputs of one drawFrame call that its course reads: an image index
\* and a present status after a successful acquire, a new chain when the
\* call recreates.
DrawFrameInputs ==
    { in \in [acq : AcquireResults, i : 0 .. (MaxImages - 1),
              pres : PresentResults, n : ImageCounts, e : ChainExtents,
              dies : BOOLEAN] :
        LET acquired == in.acq \in {"Success", "Suboptimal"}
            recreates == \/ in.acq = "OutOfDate"
                         \/ acquired /\ ~in.dies /\ PresentRecreates(in.pres)
        IN  /\ ~acquired => (in.i = 0 /\ in.pres = "Success" /\ ~in.dies)
            /\ in.dies => in.pres = "Success"
            /\ ~recreates => (in.n = rsChain.imageCount /\ in.e = rsChain.extent) }

ResourcesNext ==
    \/ \E in \in DrawFrameInputs :
          RsDrawFrame(in.acq, in.i, in.pres, in.n, in.e, in.dies)
    \/ \E n \in ImageCounts, e \in ChainExtents : RsHandleFramebufferResize(n, e)
    \/ \E loaded \in BOOLEAN : RsLoadModel(loaded)
    \/ \E loaded \in BOOLEAN : RsLoadTexture(loaded)

\* The Renderer's resources under its public operations.
ResourcesInit == RendererParked /\ OnlyResources /\ ResourcesStart

ResourcesSpec == ResourcesInit /\ [][ResourcesNext]_vars

\* C23: a drawFrame call that got through present without an error has
\* advanced currentFrame once, to (f + 1) mod MAX_FRAMES_IN_FLIGHT, also
\* when it recreated the swapchain, whatever the image index; currentFrame
\* is always a slot index, and command buffers, fences, image-available
\* semaphores, uniform buffers and descriptor sets number
\* MAX_FRAMES_IN_FLIGHT each.
C23_SlotAdvance ==
    /\ rsFrame \in Slots
    /\ (rsCall.op = "drawFrame"
        /\ rsCall.outcome \in {"presented", "presented_recreated"}) =>
          rsFrame = (rsCall.entryFrame + 1) % MAX_FRAMES_IN_FLIGHT
    /\ Len(rsCommandBuffers) = MAX_FRAMES_IN_FLIGHT
    /\ Len(rsSync.inFlightFences) = MAX_FRAMES_IN_FLIGHT
    /\ Len(rsSync.imageAvailableSemaphores) = MAX_FRAMES_IN_FLIGHT
    /\ Len(rsUniformBuffers) = MAX_FRAMES_IN_FLIGHT
    /\ Len(rsDescriptorSets) = MAX_FRAMES_IN_FLIGHT

\* A frame of slot 1 on the image of the highest index was presented, the
\* present recreated the swapchain, and currentFrame is back at 0.
C23_Witness ==
    /\ rsCall.op = "drawFrame"
    /\ rsCall.outcome = "presented_recreated"
    /\ rsCall.entryFrame = 1
    /\ rsCall.imageIndex = MaxImages - 1
    /\ rsFrame = 0

\* C28 (as claimed): on the Linux build, what recordCommandBuffer(imageIndex)
\* uses is a non-null render pass and, of one framebuffer per image, the one
\* built from the current view of that image and the current depth image.
C28_FramebuffersPresent ==
    (rsLinux /\ rsCall.rec.recorded) =>
        /\ rsCall.rec.renderPass # NullHandle
        /\ rsCall.rec.framebufferCount = rsCall.rec.chain.imageCount
        /\ rsCall.rec.framebuffer.color =
              [chain |-> rsCall.rec.chain.gen, image |-> rsCall.imageIndex]
        /\ rsCall.rec.framebuffer.depth = rsCall.rec.depth.id

\* C29: the depth image has the extent of the swapchain whenever an
\* operation of the Renderer has returned, and had it whenever drawFrame
\* recorded a command buffer.
C29_DepthMatchesExtent ==
    /\ rsDepth.extent = rsChain.extent
    /\ rsCall.rec.recorded => rsCall.rec.depth.extent = rsCall.rec.chain.extent

\* A frame was recorded on a chain that had been recreated twice, the last
\* time with another extent than that of the chain its own present built.
C29_Witness ==
    /\ rsCall.outcome = "presented_recreated"
    /\ rsCall.rec.recorded
    /\ rsCall.rec.chain.gen = MaxRecreates - 1
    /\ rsCall.rec.chain.extent # rsChain.extent
    /\ rsCall.rec.depth.id = MaxRecreates
    /\ rsDepth.id = MaxRecreates + 1

\* C30 (as claimed): the descriptor set a recorded mesh draw binds is the one
\* of the slot, written with the uniform buffer of the slot and the texture.
C30_DescriptorsWritten ==
    (rsCall.rec.recorded /\ rsCall.rec.drew) =>
        /\ rsCall.rec.set.written
        /\ rsCall.rec.set.buffer = rsCall.entryFrame
        /\ rsCall.rec.set.texture

====
